---- MODULE Spec2Model ----
(***************************************************************************)
(* The shared cache of symbolicator (services/shared_cache.rs): the        *)
(* SharedCacheService facade with its deferred initialisation, the upload  *)
(* queue and upload worker, the single uploaders, and the two backends     *)
(* (filesystem and GCS), each operation split at its await points.         *)
(***************************************************************************)
EXTENDS Integers, Sequences, FiniteSets, TLC

\* ------------------------------------------------------------------ bounds
NumCallers == 2
MaxOps == 2
MaxQueueSize == 2
MaxConcurrentUploads == 2
NumKeys == 1
\* the stores of the queue overflow scenario
ScenarioStores == 3

\* the S3 client cache: concurrent callers of get_s3_client, the S3SourceKeys they
\* use, the calls each makes, and the capacity given to S3Downloader::new
NumS3Callers == 3
NumS3Keys == 2
MaxS3Gets == 2
S3ClientCapacity == 1
S3Callers == 1..NumS3Callers
S3Keys == 1..NumS3Keys

\* the calls the task that uses GcsState directly makes
MaxDirectCalls == 3

\* clones of the SharedCacheService handle, each used by one task
Callers == 1..NumCallers
\* SharedCacheKey values
Keys == 1..NumKeys
\* one UploadMessage per store call: <<caller, number of the call>>
Msgs == Callers \X (1..(IF ScenarioStores > MaxOps THEN ScenarioStores ELSE MaxOps))

\* tokio::fs::File handed to store: its bytes and the position of the handle
SrcFiles == { [data |-> <<1, 2>>, pos |-> 2], [data |-> <<3>>, pos |-> 0] }
Reasons == {"New", "Refresh"}

NoKey == 0
NoMsg == <<0, 0>>
NoFile == [data |-> <<>>, pos |-> 0]
\* a file that does not exist (yet, or any more); a key with no object
NoInode == [present |-> FALSE, content |-> <<>>]
NoObject == [present |-> FALSE, content |-> <<>>, owner |-> NoMsg]

\* ----------------------------------------------------------------- results
Pending == [t |-> "pending", n |-> 0]
SomeBytes(n) == [t |-> "Some", n |-> n]
NoneFound == [t |-> "None", n |-> 0]
Written(n) == [t |-> "Written", n |-> n]
Skipped == [t |-> "Skipped", n |-> 0]
ConnectTimeout == [t |-> "ConnectTimeout", n |-> 0]
Other == [t |-> "Other", n |-> 0]
IsErr(r) == r.t \in {"ConnectTimeout", "Other"}
IsOkStore(r) == r.t \in {"Written", "Skipped"}

VARIABLES
    config,           \* Option<SharedCacheConfig> given to new()
    initPc,           \* position of the spawned init task
    inner,            \* TRUE when SharedCacheService.inner is Some
    readers,          \* callers holding a read lease of the RwLock
    caller,           \* each caller's position in its fetch / store call
    msg,              \* the UploadMessage of each store call
    oneshot,          \* the completion channel of each store call
    queue,            \* upload_queue: the mpsc channel of UploadMessages
    workerPc,         \* position of the upload_worker task
    uploads_counter,  \* upload_worker's free slots
    done_chan,        \* pending signals in upload_worker's done channel
    up,               \* each single_uploader task
    inode,            \* filesystem: the file each store creates (its NamedTempFile)
    path,             \* filesystem: root/relative_path(key) -> the file linked there
    gcs,              \* GCS bucket: bucket key -> object
    dropped,          \* counter services.shared_cache.store.dropped
    storeLog,         \* outcome of every store on the installed state, in order
    s3,               \* a call of S3Downloader::download_source
    client_cache,     \* S3Downloader.client_cache: S3SourceKey -> client
    s3get,            \* the calls of get_s3_client and the cache's bookkeeping
    direct,           \* a task calling GcsState::fetch, exists and store itself
    auth              \* a call of GcsState::try_new

vars == <<config, initPc, inner, readers, caller, msg, oneshot, queue, workerPc,
          uploads_counter, done_chan, up, inode, path, gcs, dropped, storeLog, s3,
          client_cache, s3get, direct, auth>>

\* the state of the operations run on their own
unitVars == <<s3, client_cache, s3get, direct, auth>>
serviceVars == <<config, initPc, inner, readers, caller, msg, oneshot, queue, workerPc,
                 uploads_counter, done_chan, up, inode, path, gcs, dropped, storeLog>>

NoConfig == [backend |-> "none", max_upload_queue_size |-> 1, max_concurrent_uploads |-> 1]
Configs ==
    {NoConfig} \cup
    [backend : {"Filesystem", "Gcs"},
     max_upload_queue_size : 1..MaxQueueSize,
     max_concurrent_uploads : 1..MaxConcurrentUploads]

IdleCaller ==
    [pc |-> "idle", n |-> 0, op |-> "none", key |-> NoKey, file |-> NoFile,
     reason |-> "New", sink |-> <<>>, body |-> <<>>, handle |-> NoMsg,
     res |-> Pending, result |-> "none", sawInner |-> FALSE, after |-> {},
     ioerr |-> "none", metric |-> <<>>, logged |-> 0]

\* closedInFlight records that the upload channel was closed while the task ran;
\* metric lists the labels of the task's services.shared_cache.store increments,
\* logged counts its tracing::error! calls about the store
NoUploader ==
    [pc |-> "none", pos |-> 0, existed |-> FALSE, res |-> Pending, closedInFlight |-> FALSE,
     metric |-> <<>>, logged |-> 0]

\* faulty variant: the initialisation task is spawned whatever the configuration
NewInitPcAlways(cfg) == "creating"

\* SharedCacheService::new: init is spawned only for Some(config)
NewInitPc(cfg) == IF cfg = NoConfig THEN "unspawned" ELSE "creating"

\* no download_source call is made
NoResponse ==
    [t |-> "none", status |-> 0, kind |-> "none", code |-> FALSE, message |-> FALSE,
     request_id |-> FALSE, extended_request_id |-> FALSE, content_length |-> 0]
NoResult == [t |-> "none", status |-> 0, code |-> FALSE]
\* the destination path: whether a file exists there and how many bytes it holds
NoDestination == [created |-> FALSE, len |-> 0]
S3Idle ==
    [pc |-> "idle", response |-> NoResponse, result |-> NoResult, streamed |-> FALSE,
     destination |-> NoDestination]

ServiceInit ==
    /\ config \in Configs
    /\ initPc = NewInitPc(config)
    /\ inner = FALSE
    /\ readers = {}
    /\ caller = [c \in Callers |-> IdleCaller]
    /\ msg = [m \in Msgs |-> [key |-> NoKey, file |-> NoFile, reason |-> "New"]]
    /\ oneshot = [m \in Msgs |-> "none"]
    /\ queue = <<>>
    /\ workerPc = "none"
    /\ uploads_counter = 0
    /\ done_chan = 0
    /\ up = [m \in Msgs |-> NoUploader]
    /\ inode = [m \in Msgs |-> NoInode]
    /\ path = [k \in Keys |-> NoMsg]
    /\ gcs = [k \in Keys |-> NoObject]
    /\ dropped = 0
    /\ storeLog = <<>>

\* an empty client cache and no call of get_s3_client
NoClient == <<0, 0>>
S3ClientsInit ==
    /\ client_cache = [k \in S3Keys |-> NoClient]
    /\ s3get = [building |-> [k \in S3Keys |-> 0],
                create |-> [k \in S3Keys |-> 0],
                cached |-> 0,
                evicted |-> [k \in S3Keys |-> 0],
                getter |-> [c \in S3Callers |->
                                [pc |-> "idle", key |-> 0, client |-> NoClient, n |-> 0]]]

\* no request made, and no direct call of a GcsState operation: wire lists the
\* requests the call has sent, captured counts its sentry::capture_error calls,
\* exists_metric the status labels of its services.shared_cache.exists increments,
\* stored the keys an earlier store of the task returned Ok for
NoRequest == [kind |-> "none", status |-> 0, applied |-> FALSE]
NoDirect ==
    [pc |-> "idle", n |-> 0, op |-> "none", key |-> NoKey, reason |-> "New",
     file |-> NoFile, get |-> NoRequest, post |-> NoRequest, res |-> Pending,
     wire |-> <<>>, captured |-> 0, exists_metric |-> <<>>, sink |-> <<>>, body |-> <<>>,
     stored |-> {}]

\* no call of GcsState::try_new: now is the time since `start`, guard the elapsed
\* time the last failed attempt found, both in units of 500 ms
NoAuth ==
    [pc |-> "none", mode |-> "none", now |-> 0, attempts |-> 0, guard |-> 0,
     result |-> "none"]

Init ==
    ServiceInit /\ s3 = S3Idle /\ S3ClientsInit /\ direct = NoDirect /\ auth = NoAuth

\* the calls made so far by the callers in S
RECURSIVE Calls(_)
Calls(S) ==
    IF S = {} THEN 0
    ELSE LET c == CHOOSE x \in S : TRUE IN caller[c].n + Calls(S \ {c})

\* ------------------------------------------------------------------- init
\* SharedCacheBackend::maybe_new: the filesystem backend is always created,
\* GcsState::try_new may fail (no authentication manager)
MaybeNew(backend) == IF backend = "Gcs" THEN {TRUE, FALSE} ELSE {TRUE}

\* faulty variant: every clone of the service brings slots of its own
InitialSlotsPerClone(cfg) == cfg.max_concurrent_uploads * NumCallers

\* upload_worker: `let mut uploads_counter = max_concurrent_uploads`
InitialSlots(cfg) == cfg.max_concurrent_uploads

\* faulty variant: init goes on to install the inner state without a backend
AfterMaybeNewInstall(created) == "locking"

\* init: `if let Some(backend) = maybe_new(..)`: with None the task ends at once
AfterMaybeNew(created) == IF created THEN "locking" ELSE "failed"

\* SharedCacheService::init up to its `inner.write().await`: the backend is
\* created, the upload worker is spawned, the write lease is requested
InitBackend ==
    /\ initPc = "creating"
    /\ \E created \in MaybeNew(config.backend) :
        /\ initPc' = AfterMaybeNew(created)
        /\ IF created
           THEN /\ workerPc' = "running"
                /\ uploads_counter' = InitialSlots(config)
                /\ done_chan' = 0
           ELSE UNCHANGED <<workerPc, uploads_counter, done_chan>>
    /\ UNCHANGED <<unitVars, config, inner, readers, caller, msg, oneshot, queue, up,
                   inode, path, gcs, dropped, storeLog>>

\* SharedCacheService::init: `*inner.write().await = Some(..)`; the write lease is
\* granted once no read lease is held
InitInstall ==
    /\ initPc = "locking"
    /\ readers = {}
    /\ inner' = TRUE
    /\ initPc' = "done"
    /\ UNCHANGED <<unitVars, config, readers, caller, msg, oneshot, queue, workerPc,
                   uploads_counter, done_chan, up, inode, path, gcs, dropped, storeLog>>

\* faulty variant: readers wait until the initialisation task has ended
ReadGrantedAfterInit == initPc \in {"done", "failed", "unspawned"}

\* faulty variant: a read lease is handed out whenever no writer holds the lock
ReadGrantedAlways == TRUE

\* tokio's RwLock is fair: no read lease is handed out while a writer waits
ReadGranted == initPc # "locking"

\* ------------------------------------------------------------------ fetch
\* a caller calls SharedCacheService::fetch(key, writer) with an empty writer
FetchCall(c, k) ==
    /\ caller[c].pc = "idle"
    /\ Calls(Callers) < MaxOps
    /\ caller' = [caller EXCEPT ![c] =
          [IdleCaller EXCEPT !.pc = "name_wait", !.n = caller[c].n + 1,
                             !.op = "fetch", !.key = k]]
    /\ UNCHANGED <<unitVars, config, initPc, inner, readers, msg, oneshot, queue, workerPc,
                   uploads_counter, done_chan, up, inode, path, gcs, dropped, storeLog>>

\* backend_name(): `self.inner.read().await`, the name is read, the lease released
BackendName(c) ==
    /\ caller[c].pc = "name_wait"
    /\ ReadGranted
    /\ caller' = [caller EXCEPT ![c].pc = "fetch_wait"]
    /\ UNCHANGED <<unitVars, config, initPc, inner, readers, msg, oneshot, queue, workerPc,
                   uploads_counter, done_chan, up, inode, path, gcs, dropped, storeLog>>

\* where fetch goes with the lease held: `None => return false`, or the backend
FetchDispatchPc(installed, backend) ==
    IF ~installed THEN "idle"
    ELSE IF backend = "Gcs" THEN "gcs_fetch" ELSE "fs_fetch"

\* fetch: `match self.inner.read().await.as_ref()`; the lease is held until fetch
\* returns
FetchDispatch(c) ==
    /\ caller[c].pc = "fetch_wait"
    /\ ReadGranted
    /\ LET to == FetchDispatchPc(inner, config.backend) IN
       /\ caller' = [caller EXCEPT ![c].pc = to,
                                   ![c].sawInner = inner,
                                   ![c].after = {m \in Msgs : /\ msg[m].key = caller[c].key
                                                              /\ up[m].res.t = "Written"},
                                   ![c].result = IF to = "idle" THEN "false" ELSE "none"]
       /\ readers' = IF to = "idle" THEN readers ELSE readers \cup {c}
    /\ UNCHANGED <<unitVars, config, initPc, inner, msg, oneshot, queue, workerPc,
                   uploads_counter, done_chan, up, inode, path, gcs, dropped, storeLog>>

\* faulty variant: only Ok(None) is a miss
FetchResultNotNone(res) == IF res = NoneFound THEN "false" ELSE "true"

\* fetch: `match res`: Ok(Some(bytes)) => true, Ok(None) => false, Err(_) => false
FetchResult(res) == IF res.t = "Some" THEN "true" ELSE "false"

\* faulty variant: every error is logged
LogsErrorAll(res) == IF IsErr(res) THEN 1 ELSE 0

\* `if let CacheError::Other(err) = outer_err { tracing::error!(..) }`
LogsError(res) == IF res.t = "Other" THEN 1 ELSE 0

\* the `match res` of fetch and of single_uploader: the one increment of the
\* operation's counter with its status and errdetails labels, and the errors logged
Telemetry(res) ==
    [metric |-> <<[status |-> IF IsErr(res) THEN "error" ELSE "ok",
                   errdetails |-> IF ~IsErr(res) THEN "none"
                                  ELSE IF res = ConnectTimeout THEN "connect-timeout"
                                  ELSE "other"]>>,
     logged |-> LogsError(res)]

\* fetch: the backend has returned and the lease is released; the result is
\* counted, an Other error is logged, and fetch returns
FetchReturn(c) ==
    /\ caller[c].pc = "fetch_res"
    /\ caller' = [caller EXCEPT ![c].pc = "idle",
                                ![c].result = FetchResult(caller[c].res),
                                ![c].metric = @ \o Telemetry(caller[c].res).metric,
                                ![c].logged = @ + Telemetry(caller[c].res).logged]
    /\ readers' = readers \ {c}
    /\ UNCHANGED <<unitVars, config, initPc, inner, msg, oneshot, queue, workerPc,
                   uploads_counter, done_chan, up, inode, path, gcs, dropped, storeLog>>

\* ------------------------------------------------------------------ store
\* a caller calls SharedCacheService::store(key, src, reason)
CallStore(c, k, f, r, budget) ==
    /\ caller[c].pc = "idle"
    /\ Calls(Callers) < budget
    /\ caller' = [caller EXCEPT ![c] =
          [IdleCaller EXCEPT !.pc = "store_wait", !.n = caller[c].n + 1,
                             !.op = "store", !.key = k, !.file = f, !.reason = r]]
    /\ UNCHANGED <<unitVars, config, initPc, inner, readers, msg, oneshot, queue, workerPc,
                   uploads_counter, done_chan, up, inode, path, gcs, dropped, storeLog>>

\* faulty variant: the queue accepts a message whatever its length
TrySendAlways(q, capacity) == TRUE

\* mpsc::Sender::try_send: TRUE when the message is taken
TrySend(q, capacity) == Len(q) < capacity

\* faulty variant: the sender of a rejected message is kept alive
SenderKept(sent) == "open"

\* the oneshot channel after try_send: a message that is not sent is dropped, and
\* its done_tx with it
SenderAfterTrySend(sent) == IF sent THEN "open" ELSE "closed"

\* the message of a caller's current store call
CurMsg(c) == <<c, caller[c].n>>

StoreCall(c, k, f, r) == CallStore(c, k, f, r, MaxOps)

\* store: `self.inner.read().await`, then None for no inner state, else try_send and
\* Some(done_rx); the lease is released on return
Store(c) ==
    /\ caller[c].pc = "store_wait"
    /\ ReadGranted
    /\ IF ~inner
       THEN /\ caller' = [caller EXCEPT ![c].pc = "idle", ![c].result = "None",
                                        ![c].sawInner = FALSE]
            /\ UNCHANGED <<msg, oneshot, queue, dropped, storeLog>>
       ELSE LET m == CurMsg(c)
                sent == TrySend(queue, config.max_upload_queue_size) IN
            /\ msg' = [msg EXCEPT ![m] = [key |-> caller[c].key, file |-> caller[c].file,
                                          reason |-> caller[c].reason]]
            /\ queue' = IF sent THEN Append(queue, m) ELSE queue
            /\ oneshot' = [oneshot EXCEPT ![m] = SenderAfterTrySend(sent)]
            /\ dropped' = IF sent THEN dropped ELSE dropped + 1
            /\ storeLog' = Append(storeLog, IF sent THEN "accepted" ELSE "dropped")
            /\ caller' = [caller EXCEPT ![c].pc = "store_ret", ![c].result = "Some",
                                        ![c].sawInner = TRUE]
    /\ UNCHANGED <<unitVars, config, initPc, inner, readers, workerPc, uploads_counter, done_chan,
                   up, inode, path, gcs>>

\* a caller holding the oneshot::Receiver of its last store, with its clone of the
\* service or after dropping it
HoldsReceiver(c) == caller[c].pc \in {"store_ret", "rx_only"}
AfterReceiver(pc) == IF pc = "store_ret" THEN "idle" ELSE "dropped"

\* the caller awaits the oneshot::Receiver: Ok(()) once a value was sent, Err once
\* the sender was dropped
AwaitCompletion(c) ==
    /\ HoldsReceiver(c)
    /\ oneshot[CurMsg(c)] \in {"sent", "closed"}
    /\ oneshot' = [oneshot EXCEPT ![CurMsg(c)] =
                      IF oneshot[CurMsg(c)] = "sent" THEN "recvOk" ELSE "recvErr"]
    /\ caller' = [caller EXCEPT ![c].pc = AfterReceiver(caller[c].pc)]
    /\ UNCHANGED <<unitVars, config, initPc, inner, readers, msg, queue, workerPc,
                   uploads_counter, done_chan, up, inode, path, gcs, dropped, storeLog>>

\* the caller ignores the oneshot::Receiver and drops it
DropReceiver(c) ==
    /\ HoldsReceiver(c)
    /\ oneshot' = [oneshot EXCEPT ![CurMsg(c)] =
                      IF oneshot[CurMsg(c)] = "open" THEN "rxDropped" ELSE @]
    /\ caller' = [caller EXCEPT ![c].pc = AfterReceiver(caller[c].pc)]
    /\ UNCHANGED <<unitVars, config, initPc, inner, readers, msg, queue, workerPc,
                   uploads_counter, done_chan, up, inode, path, gcs, dropped, storeLog>>

\* the upload channel is closed: init has ended and dropped its handle and its
\* Sender, and every clone of the service is dropped, so that no Sender is left
Closed == initPc = "done" /\ \A c \in Callers : caller[c].pc \in {"dropped", "rx_only"}

\* a caller drops its clone of the SharedCacheService; a receiver it holds stays
DropClone(c) ==
    /\ caller[c].pc \in {"idle", "store_ret"}
    /\ caller' = [caller EXCEPT ![c].pc = IF @ = "idle" THEN "dropped" ELSE "rx_only"]
    /\ UNCHANGED <<unitVars, config, initPc, inner, readers, msg, oneshot, queue, workerPc,
                   uploads_counter, done_chan, inode, path, gcs, dropped, storeLog>>
    /\ up' = [m \in Msgs |->
                IF Closed' /\ up[m].pc \notin {"none", "finished"}
                THEN [up[m] EXCEPT !.closedInFlight = TRUE] ELSE up[m]]

\* ---------------------------------------------------------- upload worker
\* faulty variant: spawning an uploader takes no slot
TakeNoSlot(n) == n

\* upload_worker, select branch `Some(message) = work_rx.recv(), if uploads_counter > 0`:
\* a slot is taken and single_uploader is spawned with the message
\* `uploads_counter -= 1`
TakeSlot(n) == n - 1

\* faulty variant: the select branch is not guarded by the free slots
SlotAlwaysFree(n) == TRUE

\* the precondition `if uploads_counter > 0` of the work_rx branch of the select
SlotFree(n) == n > 0

\* faulty variant: a received message stays on the channel
RecvKeep(q) == [message |-> Head(q), rest |-> q]

\* faulty variant: the newest message of the channel is received
RecvLast(q) == [message |-> q[Len(q)], rest |-> SubSeq(q, 1, Len(q) - 1)]

\* mpsc::Receiver::recv on a non-empty channel: the oldest message, and what stays
Recv(q) == [message |-> Head(q), rest |-> Tail(q)]

\* faulty variant: recv() yields None as soon as the channel is closed
WorkArmClosed == ~SlotFree(uploads_counter) \/ Closed

\* select: the work_rx arm is disabled when its precondition is false or recv()
\* yields None, which it does once the channel is closed and empty
WorkArmDisabled == ~SlotFree(uploads_counter) \/ (Closed /\ queue = <<>>)

UploadWorkerRecv ==
    /\ workerPc = "running"
    /\ ~WorkArmDisabled
    /\ queue # <<>>
    /\ LET m == Recv(queue).message IN
       up' = [up EXCEPT ![m] = [NoUploader EXCEPT !.pc = "store", !.pos = msg[m].file.pos]]
    /\ queue' = Recv(queue).rest
    /\ uploads_counter' = TakeSlot(uploads_counter)
    /\ UNCHANGED <<unitVars, config, initPc, inner, readers, caller, msg, oneshot, workerPc,
                   done_chan, inode, path, gcs, dropped, storeLog>>

\* select: `else` runs when every arm is disabled; the done_rx arm is disabled when
\* recv() yields None, which it does once the channel is empty and no Sender is
\* left: neither the done_tx upload_worker holds while it runs nor the clone each
\* single_uploader holds until it ends
SelectElse ==
    /\ WorkArmDisabled
    /\ done_chan = 0
    /\ workerPc # "running"
    /\ \A m \in Msgs : up[m].pc \in {"none", "finished"}

\* upload_worker, the select arms that take no message: `Some(_) = done_rx.recv()`
\* gives a slot back; `else => break` ends the loop and the task
UploadWorkerDone ==
    /\ workerPc = "running"
    /\ \/ /\ done_chan > 0
          /\ done_chan' = done_chan - 1
          /\ uploads_counter' = uploads_counter + 1
          /\ UNCHANGED workerPc
       \/ /\ SelectElse
          /\ workerPc' = "terminated"
          /\ UNCHANGED <<done_chan, uploads_counter>>
    /\ UNCHANGED <<unitVars, config, initPc, inner, readers, caller, msg, oneshot, queue,
                   up, inode, path, gcs, dropped, storeLog>>

\* faulty variant: the done signal is not sent
DoneSendLost(n) == n

\* mpsc::Sender::send(()) on the done channel: one more pending signal
DoneSend(n) == n + 1

\* single_uploader: backend.store has returned; the result is counted, an Other
\* error is logged, then `done_tx.send(()).await`
UploaderDone(m) ==
    /\ up[m].pc = "ret"
    /\ workerPc = "running" => done_chan < config.max_concurrent_uploads
    /\ done_chan' = IF workerPc = "running" THEN DoneSend(done_chan) ELSE done_chan
    /\ up' = [up EXCEPT ![m].pc = "signal",
                        ![m].metric = @ \o Telemetry(up[m].res).metric,
                        ![m].logged = @ + Telemetry(up[m].res).logged]
    /\ UNCHANGED <<unitVars, config, initPc, inner, readers, caller, msg, oneshot, queue, workerPc,
                   uploads_counter, inode, path, gcs, dropped, storeLog>>

\* faulty variant: complete_tx is dropped without a value being sent
CompleteDropped(ch) == IF ch = "open" THEN "closed" ELSE ch

\* oneshot::Sender::send(()): the value is sent unless the receiver is gone
CompleteSend(ch) == IF ch = "open" THEN "sent" ELSE ch

\* single_uploader: `complete_tx.send(()).ok()`: ignored when the receiver is gone
UploaderComplete(m) ==
    /\ up[m].pc = "signal"
    /\ oneshot' = [oneshot EXCEPT ![m] = CompleteSend(@)]
    /\ up' = [up EXCEPT ![m].pc = "finished"]
    /\ UNCHANGED <<unitVars, config, initPc, inner, readers, caller, msg, queue, workerPc,
                   uploads_counter, done_chan, inode, path, gcs, dropped, storeLog>>

\* ----------------------------------------------------- filesystem backend
\* faulty variant: the source file is read from wherever its cursor stands
NoRewind(f) == f

\* File::seek / rewind and the bytes a reader gets from a position on
Rewind(f) == [f EXCEPT !.pos = 0]

\* faulty variant: the length is taken where the cursor stands
SeekCurrent(f) == f

\* File::seek(SeekFrom::End(0)): the cursor is put at the end, its position is the
\* length of the file
SeekEnd(f) == [f EXCEPT !.pos = Len(f.data)]

\* the file a path names
FileAt(k) == IF path[k] = NoMsg THEN NoInode ELSE inode[path[k]]

\* faulty variant: NotFound is an error like the others
OpenErrorAll(kind) == Other

\* FilesystemSharedCacheConfig::fetch: the match on the error of File::open
OpenError(kind) == IF kind = "NotFound" THEN NoneFound ELSE Other

\* FilesystemSharedCacheConfig::fetch: File::open(abspath)
FsFetchOpen(c) ==
    /\ caller[c].pc = "fs_fetch"
    /\ \/ /\ path[caller[c].key] = NoMsg
          /\ caller' = [caller EXCEPT ![c].pc = "fetch_res", ![c].ioerr = "NotFound",
                                      ![c].res = OpenError("NotFound")]
       \/ /\ path[caller[c].key] # NoMsg
          /\ caller' = [caller EXCEPT ![c].pc = "fs_copy", ![c].handle = path[caller[c].key]]
       \/ \* an error other than NotFound
          caller' = [caller EXCEPT ![c].pc = "fetch_res", ![c].ioerr = "PermissionDenied",
                                   ![c].res = OpenError("PermissionDenied")]
    /\ UNCHANGED <<unitVars, config, initPc, inner, readers, msg, oneshot, queue, workerPc,
                   uploads_counter, done_chan, up, inode, path, gcs, dropped, storeLog>>

\* FilesystemSharedCacheConfig::fetch: io::copy(&mut file, writer), byte by byte
FsFetchCopy(c) ==
    /\ caller[c].pc = "fs_copy"
    /\ LET content == inode[caller[c].handle].content
           at == Len(caller[c].sink) IN
       \/ /\ at < Len(content)
          /\ caller' = [caller EXCEPT ![c].sink = Append(@, content[at + 1])]
       \/ /\ at >= Len(content)
          /\ caller' = [caller EXCEPT ![c].pc = "fetch_res", ![c].res = SomeBytes(at)]
       \/ \* a read or write error
          caller' = [caller EXCEPT ![c].pc = "fetch_res", ![c].res = Other]
    /\ UNCHANGED <<unitVars, config, initPc, inner, readers, msg, oneshot, queue, workerPc,
                   uploads_counter, done_chan, up, inode, path, gcs, dropped, storeLog>>

\* faulty variant: the existence check is skipped
ExistsNever(k) == FALSE

\* Path::exists
Exists(k) == path[k] # NoMsg

\* FilesystemSharedCacheConfig::store: create_dir_all, then `abspath.exists()`
FsStoreCheck(m) ==
    /\ up[m].pc = "store"
    /\ config.backend = "Filesystem"
    /\ LET existed == FileAt(msg[m].key).present IN
       \/ /\ Exists(msg[m].key)
          /\ up' = [up EXCEPT ![m].pc = "ret", ![m].pos = 0, ![m].res = Skipped,
                              ![m].existed = existed]
       \/ /\ ~Exists(msg[m].key)
          /\ up' = [up EXCEPT ![m].pc = "fs_tmp", ![m].existed = existed]
       \/ \* create_dir_all fails
          up' = [up EXCEPT ![m].pc = "ret", ![m].pos = 0, ![m].res = Other,
                           ![m].existed = existed]
    /\ UNCHANGED <<unitVars, config, initPc, inner, readers, caller, msg, oneshot, queue, workerPc,
                   uploads_counter, done_chan, inode, path, gcs, dropped, storeLog>>

\* faulty variant: the file is created at its final path
NewFileInPlace(k, m) == [path EXCEPT ![k] = m]

\* NamedTempFile::new_in(&temp_dir): the new file is linked in <parent>/.tmp, and
\* no cache path names it
NewTempFile(k, m) == path

\* FilesystemSharedCacheConfig::store: the NamedTempFile is created in .tmp and
\* src is rewound
FsStoreTemp(m) ==
    /\ up[m].pc = "fs_tmp"
    /\ \/ /\ inode' = [inode EXCEPT ![m] = [present |-> TRUE, content |-> <<>>]]
          /\ path' = NewTempFile(msg[m].key, m)
          /\ up' = [up EXCEPT ![m].pc = "fs_copy",
                              ![m].pos = Rewind([msg[m].file EXCEPT !.pos = up[m].pos]).pos]
       \/ \* the temp dir or file cannot be created
          /\ up' = [up EXCEPT ![m].pc = "ret", ![m].pos = 0, ![m].res = Other]
          /\ UNCHANGED <<inode, path>>
    /\ UNCHANGED <<unitVars, config, initPc, inner, readers, caller, msg, oneshot, queue, workerPc,
                   uploads_counter, done_chan, gcs, dropped, storeLog>>

\* FilesystemSharedCacheConfig::store: io::copy(&mut src, &mut dest), byte by byte
FsStoreCopy(m) ==
    /\ up[m].pc = "fs_copy"
    /\ LET data == msg[m].file.data IN
       \/ /\ up[m].pos < Len(data)
          /\ inode' = [inode EXCEPT ![m].content = Append(@, data[up[m].pos + 1])]
          /\ up' = [up EXCEPT ![m].pos = @ + 1]
       \/ \* the copy fails: the NamedTempFile is dropped, which removes it
          /\ up' = [up EXCEPT ![m].pc = "ret", ![m].pos = 0, ![m].res = Other]
          /\ inode' = [inode EXCEPT ![m] = NoInode]
    /\ UNCHANGED <<unitVars, config, initPc, inner, readers, caller, msg, oneshot, queue, workerPc,
                   uploads_counter, done_chan, path, gcs, dropped, storeLog>>

\* NamedTempFile::persist(abspath): the temp file is renamed to the path, replacing
\* what the path named
Persist(k, m) == [path EXCEPT ![k] = m]

\* FilesystemSharedCacheConfig::store: io::copy has reached the end of src and
\* returns the bytes copied; temp_file.persist(abspath); Written(bytes)
FsStorePersist(m) ==
    /\ up[m].pc = "fs_copy"
    /\ up[m].pos >= Len(msg[m].file.data)
    /\ \/ /\ path' = Persist(msg[m].key, m)
          /\ up' = [up EXCEPT ![m].pc = "ret", ![m].pos = 0,
                              ![m].res = Written(Len(inode[m].content))]
          /\ UNCHANGED inode
       \/ \* persist fails: the NamedTempFile is dropped, which removes it
          /\ up' = [up EXCEPT ![m].pc = "ret", ![m].pos = 0, ![m].res = Other]
          /\ inode' = [inode EXCEPT ![m] = NoInode]
          /\ UNCHANGED path
    /\ UNCHANGED <<unitVars, config, initPc, inner, readers, caller, msg, oneshot, queue, workerPc,
                   uploads_counter, done_chan, gcs, dropped, storeLog>>

\* ------------------------------------------------------------ GCS backend
\* what a request comes to: get_token fails, the timeout elapses, the transport
\* fails, or the server answers with a status. `applied` tells whether the server
\* has carried out a request whose answer never arrived.
Failure(kind) == [kind |-> kind, status |-> 0, applied |-> FALSE]
Answer(status) == [kind |-> "status", status |-> status, applied |-> TRUE]
Failures == {Failure("token"), Failure("timeout"), Failure("transport")}

\* the server's answers to a GET of an object or of its metadata
GetResponses(k) ==
    Failures \cup {Answer(s) : s \in (IF gcs[k].present THEN {200} ELSE {404}) \cup {401, 403, 500}}

\* the server's answers to an upload with ifGenerationMatch=0
PostResponses(k) ==
    Failures \cup {[Failure("timeout") EXCEPT !.applied = TRUE]}
             \cup {Answer(s) : s \in (IF gcs[k].present THEN {412} ELSE {200, 201})
                                     \cup {401, 403, 404, 500}}

\* StatusCode::is_success
IsSuccess(status) == status >= 200 /\ status <= 299

\* faulty variant: 404 is not told apart from the other error statuses
GcsFetchResultNo404(resp) ==
    CASE resp.kind = "timeout" -> ConnectTimeout
      [] resp.kind = "status" /\ IsSuccess(resp.status) -> Pending
      [] OTHER -> Other

\* GcsState::fetch: the match on the request's outcome, before the body is copied
GcsFetchResult(resp) ==
    CASE resp.kind = "token" -> Other
      [] resp.kind = "timeout" -> ConnectTimeout
      [] resp.kind = "transport" -> Other
      [] OTHER -> IF IsSuccess(resp.status) THEN Pending
                  ELSE IF resp.status = 404 THEN NoneFound
                  ELSE Other

\* a request is sent once get_token has returned a token
OnWire(resp, request) == IF resp.kind = "token" THEN <<>> ELSE <<request>>

\* GcsState::fetch up to the copy: the result so far, the request sent, and the
\* body of a success response
FetchStep(resp, k) ==
    LET res == GcsFetchResult(resp) IN
    [res |-> res, wire |-> OnWire(resp, "get"),
     body |-> IF res = Pending THEN gcs[k].content ELSE <<>>]

\* GcsState::fetch: get_token, the GET with CONNECT_TIMEOUT, the match on the status
GcsFetchRequest(c) ==
    /\ caller[c].pc = "gcs_fetch"
    /\ \E resp \in GetResponses(caller[c].key) :
         LET st == FetchStep(resp, caller[c].key) IN
         caller' = [caller EXCEPT
                      ![c].pc = IF st.res = Pending THEN "gcs_copy" ELSE "fetch_res",
                      ![c].res = st.res,
                      ![c].body = st.body]
    /\ UNCHANGED <<unitVars, config, initPc, inner, readers, msg, oneshot, queue, workerPc,
                   uploads_counter, done_chan, up, inode, path, gcs, dropped, storeLog>>

\* GcsState::fetch: io::copy(&mut stream, writer), byte by byte
GcsFetchCopy(c) ==
    /\ caller[c].pc = "gcs_copy"
    /\ LET at == Len(caller[c].sink) IN
       \/ /\ at < Len(caller[c].body)
          /\ caller' = [caller EXCEPT ![c].sink = Append(@, caller[c].body[at + 1])]
       \/ /\ at >= Len(caller[c].body)
          /\ caller' = [caller EXCEPT ![c].pc = "fetch_res", ![c].res = SomeBytes(at)]
       \/ \* the stream or the writer fails
          caller' = [caller EXCEPT ![c].pc = "fetch_res", ![c].res = Other]
    /\ UNCHANGED <<unitVars, config, initPc, inner, readers, msg, oneshot, queue, workerPc,
                   uploads_counter, done_chan, up, inode, path, gcs, dropped, storeLog>>

\* faulty variant: every answer but 404 counts as found
GcsExistsResultLoose(resp) ==
    CASE resp.kind = "token" -> Other
      [] resp.kind = "timeout" -> ConnectTimeout
      [] resp.kind = "transport" -> Other
      [] OTHER -> IF resp.status = 404 THEN [t |-> "false", n |-> 0]
                  ELSE [t |-> "true", n |-> 0]

\* GcsState::exists: Ok(true), Ok(false) or an error
GcsExistsResult(resp) ==
    CASE resp.kind = "token" -> Other
      [] resp.kind = "timeout" -> ConnectTimeout
      [] resp.kind = "transport" -> Other
      [] OTHER -> IF resp.status = 200 THEN [t |-> "true", n |-> 0]
                  ELSE IF resp.status = 404 THEN [t |-> "false", n |-> 0]
                  ELSE Other

\* GcsState::exists: the counter services.shared_cache.exists is incremented after
\* the match on the request's outcome; get_token's `?` and the `?` of the transport
\* error arm return before it
ExistsMetric(resp) ==
    CASE resp.kind \in {"token", "transport"} -> <<>>
      [] resp.kind = "timeout" -> <<"connect-timeout">>
      [] OTHER -> IF resp.status \in {200, 404} THEN <<"ok">> ELSE <<"error">>

\* GcsState::exists: its result, the request it sent and its counter increments
ExistsStep(resp) ==
    [result |-> GcsExistsResult(resp), wire |-> OnWire(resp, "exists"),
     metric |-> ExistsMetric(resp)]

\* faulty variant: every error of exists is captured
CaptureAlways(found) == IF IsErr(found) THEN 1 ELSE 0

\* GcsState::store: an error of exists is captured with sentry::capture_error unless
\* it is ConnectTimeout
Capture(found) == IF found = Other THEN 1 ELSE 0

\* faulty variant: store goes on to the upload whatever exists returned
StoreAfterExistsAlways(found) == Pending

\* GcsState::store: `if reason == Refresh`, Ok(true) of exists returns Skipped; Ok(false)
\* and every error go on to the upload
StoreAfterExists(found) == IF found.t = "true" THEN Skipped ELSE Pending

\* GcsState::store with reason Refresh, up to the upload
StoreExistsStep(resp) ==
    LET e == ExistsStep(resp) IN
    [res |-> StoreAfterExists(e.result), wire |-> e.wire, metric |-> e.metric,
     captured |-> Capture(e.result)]

\* GcsState::store with reason Refresh: the exists(key) request
GcsStoreExists(m) ==
    /\ up[m].pc = "store"
    /\ config.backend = "Gcs"
    /\ msg[m].reason = "Refresh"
    /\ \E resp \in GetResponses(msg[m].key) :
         LET res == StoreExistsStep(resp).res IN
         up' = [up EXCEPT ![m].pc = IF res = Pending THEN "gcs_upload" ELSE "ret",
                          ![m].pos = IF res = Pending THEN @ ELSE 0,
                          ![m].res = res,
                          ![m].existed = gcs[msg[m].key].present]
    /\ UNCHANGED <<unitVars, config, initPc, inner, readers, caller, msg, oneshot, queue, workerPc,
                   uploads_counter, done_chan, inode, path, gcs, dropped, storeLog>>

\* faulty variant: 412 is not told apart from the other error statuses
GcsStoreResultNo412(resp, total_bytes) ==
    CASE resp.kind = "timeout" -> ConnectTimeout
      [] resp.kind = "status" /\ IsSuccess(resp.status) -> Written(total_bytes)
      [] OTHER -> Other

\* GcsState::store: the match on the upload's outcome
GcsStoreResult(resp, total_bytes) ==
    CASE resp.kind = "token" -> Other
      [] resp.kind = "timeout" -> ConnectTimeout
      [] resp.kind = "transport" -> Other
      [] OTHER -> IF IsSuccess(resp.status) THEN Written(total_bytes)
                  ELSE IF resp.status = 412 THEN Skipped
                  ELSE Other

\* the bucket after an upload with ifGenerationMatch=0 that the server carried out
Upload(k, m, body) ==
    IF gcs[k].present THEN gcs
    ELSE [gcs EXCEPT ![k] = [present |-> TRUE, content |-> body, owner |-> m]]

\* GcsState::store from the seek on: its result, the request it sent and the bucket
\* afterwards; src is the file with its cursor, m the task that uploads
UploadStep(resp, src, k, m) ==
    [res |-> GcsStoreResult(resp, SeekEnd(src).pos),
     wire |-> OnWire(resp, "upload"),
     gcs |-> IF resp.applied /\ (resp.kind = "timeout" \/ IsSuccess(resp.status))
             THEN Upload(k, m, SubSeq(src.data, Rewind(src).pos + 1, Len(src.data))) ELSE gcs]

\* GcsState::store: seek to the end for total_bytes, rewind, get_token, the POST of
\* the streamed file with STORE_TIMEOUT
GcsStoreUpload(m) ==
    /\ config.backend = "Gcs"
    /\ \/ up[m].pc = "gcs_upload"
       \/ up[m].pc = "store" /\ msg[m].reason = "New"
    /\ LET src == [msg[m].file EXCEPT !.pos = up[m].pos]
           k == msg[m].key IN
       \E resp \in PostResponses(k) :
          LET st == UploadStep(resp, src, k, m) IN
          /\ up' = [up EXCEPT ![m].pc = "ret",
                              ![m].res = st.res,
                              ![m].pos = 0,
                              ![m].existed = IF up[m].pc = "store" THEN gcs[k].present ELSE @]
          /\ gcs' = st.gcs
    /\ UNCHANGED <<unitVars, config, initPc, inner, readers, caller, msg, oneshot, queue, workerPc,
                   uploads_counter, done_chan, inode, path, dropped, storeLog>>

\* ------------------------------------------------------------------- next
Next ==
    \/ InitBackend
    \/ InitInstall
    \/ \E c \in Callers :
        \/ \E k \in Keys : FetchCall(c, k)
        \/ BackendName(c)
        \/ FetchDispatch(c)
        \/ FsFetchOpen(c)
        \/ FsFetchCopy(c)
        \/ GcsFetchRequest(c)
        \/ GcsFetchCopy(c)
        \/ FetchReturn(c)
        \/ \E k \in Keys, f \in SrcFiles, r \in Reasons : StoreCall(c, k, f, r)
        \/ Store(c)
        \/ AwaitCompletion(c)
        \/ DropReceiver(c)
    \/ UploadWorkerRecv
    \/ UploadWorkerDone
    \/ \E m \in Msgs :
        \/ FsStoreCheck(m)
        \/ FsStoreTemp(m)
        \/ FsStoreCopy(m)
        \/ FsStorePersist(m)
        \/ GcsStoreExists(m)
        \/ GcsStoreUpload(m)
        \/ UploaderDone(m)
        \/ UploaderComplete(m)

Spec == Init /\ [][Next]_vars

\* ------------------------------------------------ queue overflow scenario
\* max_upload_queue_size = 1, max_concurrent_uploads = 1, a backend whose store
\* does not complete (no single_uploader takes a step), and stores only
ScenarioInit ==
    /\ Init
    /\ config # NoConfig
    /\ config.max_upload_queue_size = 1
    /\ config.max_concurrent_uploads = 1

ScenarioNext ==
    \/ InitBackend
    \/ InitInstall
    \/ \E c \in Callers :
        \/ \E k \in Keys, f \in SrcFiles, r \in Reasons : CallStore(c, k, f, r, ScenarioStores)
        \/ Store(c)
        \/ AwaitCompletion(c)
        \/ DropReceiver(c)
    \/ UploadWorkerRecv

SpecOverflow == ScenarioInit /\ [][ScenarioNext]_vars

\* the next step of single_uploader m
UploaderStep(m) ==
    \/ FsStoreCheck(m) \/ FsStoreTemp(m) \/ FsStoreCopy(m) \/ FsStorePersist(m)
    \/ GcsStoreExists(m) \/ GcsStoreUpload(m)
    \/ UploaderDone(m) \/ UploaderComplete(m)

\* ------------------------------------------------------ fair scheduling
\* one upload slot and a queue of one message; the tokio runtime runs every task
\* that can take a step, select! takes a branch that stays ready, and every
\* backend.store call returns
SpecFair ==
    /\ ScenarioInit
    /\ [][Next]_vars
    /\ WF_vars(UploadWorkerRecv)
    /\ WF_vars(UploadWorkerDone)
    /\ \A m \in Msgs : WF_vars(UploaderStep(m))

\* ------------------------------------------------- fetches without end
\* callers that call fetch again and again; the read lease backend_name() takes
\* is held from one step to the next
\* fetch is called: backend_name() is granted its read lease
BackendNameRead(c, k) ==
    /\ caller[c].pc = "idle"
    /\ ReadGranted
    /\ caller' = [caller EXCEPT ![c] =
          [IdleCaller EXCEPT !.pc = "name_read", !.n = 1, !.op = "fetch", !.key = k]]
    /\ readers' = readers \cup {c}
    /\ UNCHANGED <<unitVars, config, initPc, inner, msg, oneshot, queue, workerPc,
                   uploads_counter, done_chan, up, inode, path, gcs, dropped, storeLog>>

\* backend_name() returns the name and drops its lease
BackendNameRelease(c) ==
    /\ caller[c].pc = "name_read"
    /\ caller' = [caller EXCEPT ![c].pc = "fetch_wait"]
    /\ readers' = readers \ {c}
    /\ UNCHANGED <<unitVars, config, initPc, inner, msg, oneshot, queue, workerPc,
                   uploads_counter, done_chan, up, inode, path, gcs, dropped, storeLog>>

StarveNext ==
    \/ InitBackend
    \/ InitInstall
    \/ \E c \in Callers :
        \/ \E k \in Keys : BackendNameRead(c, k)
        \/ BackendNameRelease(c)
        \/ FetchDispatch(c)
        \/ FsFetchOpen(c)
        \/ GcsFetchRequest(c)
        \/ FetchReturn(c)

\* the runtime runs the init task when its lease is granted, and every call that
\* holds a read lease goes on until it drops it; new calls may come at any time
SpecStarve ==
    /\ Init
    /\ [][StarveNext]_vars
    /\ WF_vars(InitInstall)
    /\ \A c \in Callers :
          WF_vars(\/ BackendNameRelease(c) \/ FsFetchOpen(c) \/ GcsFetchRequest(c)
                  \/ FetchReturn(c))

\* ------------------------------------------------------ shutdown scenario
\* stores only, and callers that drop their clones of the service; the queue holds
\* one message
ShutdownInit ==
    /\ Init
    /\ config # NoConfig
    /\ config.max_upload_queue_size = 1

ShutdownNext ==
    \/ InitBackend
    \/ InitInstall
    \/ \E c \in Callers :
        \/ \E k \in Keys, f \in SrcFiles, r \in Reasons : StoreCall(c, k, f, r)
        \/ Store(c)
        \/ AwaitCompletion(c)
        \/ DropReceiver(c)
        \/ DropClone(c)
    \/ UploadWorkerRecv
    \/ UploadWorkerDone
    \/ \E m \in Msgs :
        \/ FsStoreCheck(m)
        \/ FsStoreTemp(m)
        \/ FsStoreCopy(m)
        \/ FsStorePersist(m)
        \/ GcsStoreExists(m)
        \/ GcsStoreUpload(m)
        \/ UploaderDone(m)
        \/ UploaderComplete(m)

SpecShutdown == ShutdownInit /\ [][ShutdownNext]_vars

\* ------------------------------------------------- S3 download_source
\* bound of the S3 part: object lengths
MaxContentLength == 2
SdkErrors == {"ConstructionFailure", "DispatchFailure", "TimeoutError", "ResponseError"}

\* what request.await can yield: the connect timeout elapsed, an SdkError, or a
\* GetObjectOutput; code, message and the request ids are Options of the error meta
Elapsed == [NoResponse EXCEPT !.t = "Elapsed"]
SdkError(e) == [NoResponse EXCEPT !.t = e]
ServiceError(status, kind, code, message, rid, xrid) ==
    [t |-> "ServiceError", status |-> status, kind |-> kind, code |-> code,
     message |-> message, request_id |-> rid, extended_request_id |-> xrid,
     content_length |-> 0]
GetObjectOutput(n) == [NoResponse EXCEPT !.t = "Ok", !.content_length = n]
\* the responses of the service have status 403, 404 or 500; the error kind the SDK
\* derives from a response: NoSuchKey comes with 404, InvalidObjectState with 403,
\* everything else is Unhandled
Responses ==
    {Elapsed} \cup {SdkError(e) : e \in SdkErrors}
    \cup UNION {{ServiceError(st, k, c, m, r, x) :
                    k \in {"Unhandled"}
                            \cup (IF st = 404 THEN {"NoSuchKey"} ELSE {})
                            \cup (IF st = 403 THEN {"InvalidObjectState"} ELSE {}),
                    c \in BOOLEAN, m \in BOOLEAN, r \in BOOLEAN, x \in BOOLEAN} :
                st \in {403, 404, 500}}
    \cup {GetObjectOutput(n) : n \in 0..MaxContentLength}

\* Result<DownloadStatus, DownloadError>, a panic of the task, or the hand-over
\* of the body to download_stream
NotFound == [NoResult EXCEPT !.t = "NotFound"]
Completed == [NoResult EXCEPT !.t = "Completed"]
Canceled == [NoResult EXCEPT !.t = "Canceled"]
S3WithCode(status) == [t |-> "S3WithCode", status |-> status, code |-> TRUE]
S3Err == [NoResult EXCEPT !.t = "S3"]
IoErr == [NoResult EXCEPT !.t = "Io"]
Panicked == [NoResult EXCEPT !.t = "panic"]
Stream == [NoResult EXCEPT !.t = "stream"]

\* the four unwrap() calls of the ServiceError arm, made before the kind is matched
UnwrapsPanic(r) ==
    ~r.code \/ ~r.message \/ ~r.request_id \/ ~r.extended_request_id

\* the ServiceError arm of download_source
ServiceErrorOutcome(r) ==
    IF UnwrapsPanic(r) THEN Panicked
    ELSE IF r.kind = "NoSuchKey" THEN NotFound
    ELSE IF r.code THEN S3WithCode(r.status)
    ELSE S3Err

\* download_source up to the call of download_stream
DownloadSource(r) ==
    IF r.t = "Elapsed" THEN Canceled
    ELSE IF r.t \in SdkErrors THEN NotFound
    ELSE IF r.t = "ServiceError" THEN ServiceErrorOutcome(r)
    ELSE IF r.content_length = 0 THEN NotFound
    ELSE Stream

\* download_source: the request is awaited and its outcome classified
S3Request ==
    /\ s3.pc = "call"
    /\ LET res == DownloadSource(s3.response) IN
        s3' = [s3 EXCEPT !.pc = IF res = Stream THEN "streaming" ELSE "done",
                         !.result = res]
    /\ UNCHANGED <<serviceVars, client_cache, s3get, direct, auth>>

\* the outcomes of streaming a body of n bytes to disk: all of it is written, or
\* the write fails or the streaming timeout elapses after some of it was written
StreamOutcomes(n) ==
    {[result |-> Completed, len |-> n]}
    \cup [result : {IoErr, Canceled}, len : 0..(n - 1)]

\* super::download_stream: the body is streamed to the destination
S3DownloadStream ==
    /\ s3.pc = "streaming"
    /\ \E o \in StreamOutcomes(s3.response.content_length) :
        s3' = [s3 EXCEPT !.pc = "done", !.result = o.result, !.streamed = TRUE,
                         !.destination = [created |-> TRUE, len |-> o.len]]
    /\ UNCHANGED <<serviceVars, client_cache, s3get, direct, auth>>

\* one call of download_source for each response the request can yield, on a
\* service without a shared cache
S3Init ==
    /\ ServiceInit
    /\ config = NoConfig
    /\ \E r \in Responses : s3 = [S3Idle EXCEPT !.pc = "call", !.response = r]
    /\ S3ClientsInit
    /\ direct = NoDirect
    /\ auth = NoAuth

S3Next == S3Request \/ S3DownloadStream

SpecS3 == S3Init /\ [][S3Next]_vars

\* ---------------------------------------------------- S3 client cache
\* a client is named by the key it was built for and the number of the build
Client(k, n) == <<k, n>>
Cached(k) == client_cache[k] # NoClient
Getter(c) == s3get.getter[c]

\* faulty variant: a build is started whenever the entry is absent
MustBuildUnshared(entry, inflight) == entry = NoClient

\* moka get_with_by_ref: the init future is evaluated only when the entry is
\* absent and no other caller is already evaluating it for the same key
MustBuild(entry, inflight) == entry = NoClient /\ inflight = 0

\* get_s3_client: the contains_key check and its source.s3.client.cached counter
S3GetClient(c, k) ==
    /\ Getter(c).pc \in {"idle", "have"}
    /\ Getter(c).n < MaxS3Gets
    /\ s3get' = [s3get EXCEPT
                    !.cached = IF Cached(k) THEN @ + 1 ELSE @,
                    !.getter[c] = [pc |-> "get_with", key |-> k, client |-> NoClient,
                                   n |-> @.n + 1]]
    /\ UNCHANGED <<serviceVars, s3, client_cache, direct, auth>>

\* get_with_by_ref: a hit returns the cached client; on a miss the caller either
\* starts the init future (counting source.s3.client.create) or waits for the
\* caller that is evaluating it
S3GetWith(c) ==
    /\ Getter(c).pc = "get_with"
    /\ LET k == Getter(c).key IN
        IF Cached(k)
        THEN s3get' = [s3get EXCEPT !.getter[c].pc = "have",
                                    !.getter[c].client = client_cache[k]]
        ELSE IF MustBuild(client_cache[k], s3get.building[k])
        THEN s3get' = [s3get EXCEPT !.building[k] = c,
                                    !.create[k] = @ + 1,
                                    !.getter[c].pc = "creating",
                                    !.getter[c].client = Client(k, s3get.create[k] + 1)]
        ELSE s3get' = [s3get EXCEPT !.getter[c].pc = "waiting",
                                    !.getter[c].client = Client(k, s3get.create[k])]
    /\ UNCHANGED <<serviceVars, s3, client_cache, direct, auth>>

\* create_s3_client returns: the client is inserted and handed to the caller
S3CreateClient(c) ==
    /\ Getter(c).pc = "creating"
    /\ LET k == Getter(c).key IN
        /\ client_cache' = [client_cache EXCEPT ![k] = Getter(c).client]
        /\ s3get' = [s3get EXCEPT
                        !.building[k] = IF @ = c THEN 0 ELSE @,
                        !.getter[c].pc = "have"]
    /\ UNCHANGED <<serviceVars, s3, direct, auth>>

\* a caller that waited receives the client of the build it waited for
S3Waited(c) ==
    /\ Getter(c).pc = "waiting"
    /\ LET k == Getter(c).key IN
        ~(s3get.building[k] # 0 /\ Getter(s3get.building[k]).client = Getter(c).client)
    /\ s3get' = [s3get EXCEPT !.getter[c].pc = "have"]
    /\ UNCHANGED <<serviceVars, s3, client_cache, direct, auth>>

\* the cache holds more entries than its capacity: one of them is evicted
S3Evict(k) ==
    /\ Cached(k)
    /\ Cardinality({j \in S3Keys : Cached(j)}) > S3ClientCapacity
    /\ client_cache' = [client_cache EXCEPT ![k] = NoClient]
    /\ s3get' = [s3get EXCEPT !.evicted[k] = @ + 1]
    /\ UNCHANGED <<serviceVars, s3, direct, auth>>

ClientsInit ==
    /\ ServiceInit
    /\ config = NoConfig
    /\ s3 = S3Idle
    /\ S3ClientsInit
    /\ direct = NoDirect
    /\ auth = NoAuth

ClientsNext ==
    \/ \E c \in S3Callers :
        \/ \E k \in S3Keys : S3GetClient(c, k)
        \/ S3GetWith(c)
        \/ S3CreateClient(c)
        \/ S3Waited(c)
    \/ \E k \in S3Keys : S3Evict(k)

SpecS3Clients == ClientsInit /\ [][ClientsNext]_vars

\* ------------------------------------------------- GcsState on its own
\* a task calls GcsState::fetch, exists and store one after the other, as the
\* tests of the GCS backend do
directRest == <<config, initPc, inner, readers, caller, msg, oneshot, queue, workerPc,
                uploads_counter, done_chan, up, inode, path, dropped, storeLog,
                s3, client_cache, s3get, auth>>

DirectCall(op, k, f, r) ==
    /\ direct.pc \in {"idle", "done"}
    /\ direct.n < MaxDirectCalls
    /\ direct' = [NoDirect EXCEPT !.pc = op, !.op = op, !.n = direct.n + 1, !.key = k,
                                  !.file = f, !.reason = r, !.stored = direct.stored]
    /\ UNCHANGED <<gcs, directRest>>

\* GcsState::exists
DirectExists ==
    /\ direct.pc = "exists"
    /\ \E resp \in GetResponses(direct.key) :
         LET e == ExistsStep(resp) IN
         direct' = [direct EXCEPT !.pc = "done", !.get = resp, !.res = e.result,
                                  !.wire = @ \o e.wire,
                                  !.exists_metric = @ \o e.metric]
    /\ UNCHANGED <<gcs, directRest>>

\* GcsState::store with reason Refresh: the exists(key) pre-check
DirectStoreExists ==
    /\ direct.pc = "store"
    /\ direct.reason = "Refresh"
    /\ \E resp \in GetResponses(direct.key) :
         LET st == StoreExistsStep(resp) IN
         direct' = [direct EXCEPT !.pc = IF st.res = Pending THEN "upload" ELSE "done",
                                  !.get = resp, !.res = st.res,
                                  !.wire = @ \o st.wire,
                                  !.captured = @ + st.captured,
                                  !.exists_metric = @ \o st.metric,
                                  !.stored = IF IsOkStore(st.res) THEN @ \cup {direct.key}
                                             ELSE @]
    /\ UNCHANGED <<gcs, directRest>>

\* GcsState::store: the upload
DirectStoreUpload ==
    /\ \/ direct.pc = "upload"
       \/ direct.pc = "store" /\ direct.reason = "New"
    /\ \E resp \in PostResponses(direct.key) :
         LET st == UploadStep(resp, direct.file, direct.key, <<0, direct.n>>) IN
         /\ direct' = [direct EXCEPT !.pc = "done", !.post = resp, !.res = st.res,
                                     !.wire = @ \o st.wire,
                                     !.stored = IF IsOkStore(st.res) THEN @ \cup {direct.key}
                                                ELSE @]
         /\ gcs' = st.gcs
    /\ UNCHANGED directRest

\* GcsState::fetch: the request
DirectFetchRequest ==
    /\ direct.pc = "fetch"
    /\ \E resp \in GetResponses(direct.key) :
         LET st == FetchStep(resp, direct.key) IN
         direct' = [direct EXCEPT !.pc = IF st.res = Pending THEN "copy" ELSE "done",
                                  !.get = resp, !.res = st.res, !.body = st.body,
                                  !.wire = @ \o st.wire]
    /\ UNCHANGED <<gcs, directRest>>

\* GcsState::fetch: io::copy(&mut stream, writer), byte by byte
DirectFetchCopy ==
    /\ direct.pc = "copy"
    /\ LET at == Len(direct.sink) IN
       \/ /\ at < Len(direct.body)
          /\ direct' = [direct EXCEPT !.sink = Append(@, direct.body[at + 1])]
       \/ /\ at >= Len(direct.body)
          /\ direct' = [direct EXCEPT !.pc = "done", !.res = SomeBytes(at)]
       \/ \* the stream or the writer fails
          direct' = [direct EXCEPT !.pc = "done", !.res = Other]
    /\ UNCHANGED <<gcs, directRest>>

GcsInit ==
    /\ Init
    /\ config = [backend |-> "Gcs", max_upload_queue_size |-> 1, max_concurrent_uploads |-> 1]

GcsNext ==
    \/ \E op \in {"fetch", "exists", "store"}, k \in Keys, f \in SrcFiles, r \in Reasons :
        DirectCall(op, k, f, r)
    \/ DirectExists
    \/ DirectStoreExists
    \/ DirectStoreUpload
    \/ DirectFetchRequest
    \/ DirectFetchCopy

SpecGcs == GcsInit /\ [][GcsNext]_vars

\* ------------------------------------------------- GcsState::try_new
\* the durations of try_new in units of 500 ms: MAX_DELAY is 60 s, RETRY_INTERVAL
\* 500 ms, the timeout of one attempt 1 s
MAX_DELAY == 120
RETRY_INTERVAL == 1
ATTEMPT_TIMEOUT == 2

\* service_account_path is Some: gcp_auth::from_credentials_file(&path).await?
AuthFromFile ==
    /\ auth.pc = "attempt"
    /\ auth.mode = "file"
    /\ \E ok \in BOOLEAN :
        auth' = [auth EXCEPT !.pc = "done", !.attempts = @ + 1,
                             !.result = IF ok THEN "manager" ELSE "err"]
    /\ UNCHANGED <<serviceVars, s3, client_cache, s3get, direct>>

\* one turn of the loop up to the sleep: gcp_auth::init() under its timeout, which
\* takes d, then the match on its outcome. A failed attempt reads start.elapsed()
\* twice, in the guard of the second arm and in `MAX_DELAY - start.elapsed()`;
\* `late` tells whether the second read finds that time has passed since the
\* first. Subtracting a longer Duration from a shorter one panics.
AuthAttempt ==
    /\ auth.pc = "attempt"
    /\ auth.mode = "ambient"
    /\ \E d \in 0..ATTEMPT_TIMEOUT, ok \in BOOLEAN, late \in BOOLEAN :
        LET elapsed == auth.now + d
            again == elapsed + (IF late THEN 1 ELSE 0) IN
        auth' =
            IF ok
            THEN [auth EXCEPT !.pc = "done", !.attempts = @ + 1, !.now = elapsed,
                              !.result = "manager"]
            ELSE IF elapsed > MAX_DELAY
            THEN [auth EXCEPT !.pc = "done", !.attempts = @ + 1, !.now = elapsed,
                              !.guard = elapsed, !.result = "err"]
            ELSE IF again > MAX_DELAY
            THEN [auth EXCEPT !.pc = "done", !.attempts = @ + 1, !.now = again,
                              !.guard = elapsed, !.result = "panic"]
            ELSE [auth EXCEPT !.pc = "sleep", !.attempts = @ + 1, !.now = again,
                              !.guard = elapsed]
    /\ UNCHANGED <<serviceVars, s3, client_cache, s3get, direct>>

\* tokio::time::sleep(RETRY_INTERVAL).await: the task sleeps at least that long
AuthSleep ==
    /\ auth.pc = "sleep"
    /\ \E d \in RETRY_INTERVAL..(RETRY_INTERVAL + 1) :
        auth' = [auth EXCEPT !.pc = "attempt", !.now = @ + d]
    /\ UNCHANGED <<serviceVars, s3, client_cache, s3get, direct>>

\* GcsState::try_new is called with or without a service_account_path
AuthInit ==
    /\ ServiceInit
    /\ config = NoConfig
    /\ s3 = S3Idle
    /\ S3ClientsInit
    /\ direct = NoDirect
    /\ \E mode \in {"file", "ambient"} : auth = [NoAuth EXCEPT !.pc = "attempt", !.mode = mode]

AuthNext == AuthFromFile \/ AuthAttempt \/ AuthSleep

SpecAuth == AuthInit /\ [][AuthNext]_vars

\* ================================================================ claims
\* a caller whose call has returned
Returned(c, op) == caller[c].pc = "idle" /\ caller[c].op = op
\* a caller inside a backend fetch
InBackendFetch(c) == caller[c].pc \in {"fs_fetch", "fs_copy", "gcs_fetch", "gcs_copy", "fetch_res"}
\* what a backend holds for a key
Content(k) ==
    IF config.backend = "Gcs" THEN [present |-> gcs[k].present, content |-> gcs[k].content]
    ELSE FileAt(k)

\* C1: a service created with no config stays a no-op whatever is called on it or
\* on its clones: every fetch returns false, every store returns None, the inner
\* state stays None, no message is queued or dropped, no worker or uploader runs
\* and no backend operation is started.
C1_UnconfiguredNoop ==
    config = NoConfig =>
        /\ ~inner /\ initPc = "unspawned" /\ workerPc = "none"
        /\ queue = <<>> /\ dropped = 0 /\ storeLog = <<>> /\ readers = {}
        /\ \A m \in Msgs : up[m] = NoUploader /\ oneshot[m] = "none" /\ inode[m] = NoInode
        /\ \A k \in Keys : path[k] = NoMsg /\ gcs[k] = NoObject
        /\ \A c \in Callers :
            /\ ~InBackendFetch(c) /\ caller[c].pc # "store_ret"
            /\ Returned(c, "fetch") => caller[c].result = "false" /\ caller[c].sink = <<>>
            /\ Returned(c, "store") => caller[c].result = "None"

C1_Witness ==
    /\ config = NoConfig
    /\ \E c, d \in Callers : Returned(c, "fetch") /\ Returned(d, "store")

\* C2: on a configured facade, a fetch or store that finds the inner state not yet
\* installed returns false, respectively None, and while the backend is still being
\* created no call waits: the next step of every call in progress is enabled.
C2_NoopDuringInit ==
    config # NoConfig =>
        /\ \A c \in Callers :
            /\ (Returned(c, "fetch") /\ ~caller[c].sawInner) =>
                   caller[c].result = "false" /\ caller[c].sink = <<>>
            /\ (Returned(c, "store") /\ ~caller[c].sawInner) => caller[c].result = "None"
        /\ initPc = "creating" =>
            /\ ~inner
            /\ \A c \in Callers :
                /\ caller[c].pc = "name_wait" => ENABLED BackendName(c)
                /\ caller[c].pc = "fetch_wait" => ENABLED FetchDispatch(c)
                /\ caller[c].pc = "store_wait" => ENABLED Store(c)
                /\ ~InBackendFetch(c) /\ caller[c].pc # "store_ret"

C2_Witness ==
    /\ config # NoConfig
    /\ initPc = "creating"
    /\ \E c, d \in Callers :
        /\ Returned(c, "fetch") /\ caller[c].result = "false"
        /\ Returned(d, "store") /\ caller[d].result = "None"

\* C3: once a caller's await of the completion receiver of store(K) has yielded Ok,
\* its next fetch(K) returns true. A fetch whose backend request itself fails with an
\* error is left aside: the statement fails without one.
C3_AwaitedThenHit ==
    \A c \in Callers :
        (/\ Returned(c, "fetch")
         /\ \E m \in Msgs :
                /\ m[1] = c /\ m[2] < caller[c].n /\ msg[m].key = caller[c].key
                /\ oneshot[m] = "recvOk")
            => (caller[c].result = "true" \/ IsErr(caller[c].res))

\* a fetch of a key that began after store m of the key had returned Written, m
\* being the only store of the key that an uploader has begun
AfterWritten(c, m) ==
    /\ Returned(c, "fetch") /\ caller[c].sawInner /\ caller[c].after = {m}
    /\ \A w \in Msgs \ {m} : msg[w].key = msg[m].key => up[w].pc = "none"

\* C4 as stated: after store(K, data) returned Written, fetch(K, sink) returns Some(n)
\* with n the length of data and leaves exactly data in sink.
C4_RoundTrip ==
    \A c \in Callers : \A m \in Msgs :
        AfterWritten(c, m) =>
            /\ caller[c].res = SomeBytes(Len(msg[m].file.data))
            /\ caller[c].sink = msg[m].file.data

\* C4 amended: after store(K, data) returned Written(n), n is the length of data, and
\* fetch(K, sink) either fails with a CacheError or returns Some(n) and leaves
\* exactly data in sink.
C4_RoundTripOrError ==
    \A c \in Callers : \A m \in Msgs :
        AfterWritten(c, m) =>
            /\ up[m].res = Written(Len(msg[m].file.data))
            /\ \/ IsErr(caller[c].res)
               \/ /\ caller[c].res = SomeBytes(Len(msg[m].file.data))
                  /\ caller[c].sink = msg[m].file.data

C4_Witness ==
    \E c \in Callers : \E m \in Msgs :
        /\ AfterWritten(c, m)
        /\ msg[m].file.pos > 0
        /\ caller[c].res = SomeBytes(Len(msg[m].file.data))
        /\ caller[c].sink = msg[m].file.data


\* C5 as stated: a store of a key that already had an entry when the store began
\* returns Skipped.
C5_ExistingSkipped ==
    \A m \in Msgs :
        (up[m].pc \in {"ret", "signal", "finished"} /\ up[m].existed) => up[m].res = Skipped

\* C5 amended: no step of a store of a key that already had an entry when the store
\* began changes what the backend holds for the key, and such a store returns
\* Skipped or a CacheError, never Written.
C5_ExistingUntouched ==
    [][\A m \in Msgs :
          (up'[m] # up[m] /\ up'[m].existed) =>
              /\ up'[m].res.t \in {"pending", "Skipped", "ConnectTimeout", "Other"}
              /\ Content(msg[m].key)' = Content(msg[m].key)]_vars

C5_Witness ==
    \E m, w \in Msgs :
        /\ up[m].existed /\ up[m].res = Skipped
        /\ up[w].res.t = "Written" /\ msg[w].key = msg[m].key
        /\ msg[w].file # msg[m].file
        /\ Content(msg[m].key).content = msg[w].file.data

\* C6: once a backend holds an entry for a key, no step changes it, whatever stores
\* of that key run concurrently.
C6_WriteOnce ==
    [][\A k \in Keys : Content(k).present => Content(k)' = Content(k)]_vars

\* C7: on the filesystem backend every cache path is absent or names a file holding
\* the complete source file of the store that published it, and the file a fetch
\* copies is such a complete file.
C7_AtomicPublish ==
    config.backend = "Filesystem" =>
        /\ \A k \in Keys :
              path[k] # NoMsg =>
                  /\ msg[path[k]].key = k
                  /\ inode[path[k]] = [present |-> TRUE, content |-> msg[path[k]].file.data]
        /\ \A c \in Callers :
              /\ caller[c].pc = "fs_copy" =>
                    inode[caller[c].handle].content = msg[caller[c].handle].file.data
              /\ (Returned(c, "fetch") /\ caller[c].res.t = "Some") =>
                    caller[c].sink = msg[caller[c].handle].file.data

C7_Witness ==
    /\ config.backend = "Filesystem"
    /\ \E c \in Callers : \E m \in Msgs :
        /\ caller[c].pc = "fs_fetch" /\ caller[c].key = msg[m].key
        /\ up[m].pc = "fs_copy"
        /\ up[m].pos > 0 /\ up[m].pos < Len(msg[m].file.data)
        /\ inode[m].content = SubSeq(msg[m].file.data, 1, up[m].pos)
        /\ path[msg[m].key] = NoMsg

\* a store call that finds the inner state installed and the upload queue full
StoreOnFullQueue(c) ==
    /\ caller[c].pc = "store_wait"
    /\ inner
    /\ Len(queue) >= config.max_upload_queue_size

\* C8: on an initialised facade a store call made while the upload queue is full is
\* never made to wait, whatever the uploaders are doing, and its step returns
\* Some(receiver), adds exactly one to the dropped counter and leaves the queue, the
\* worker and the uploaders as they were.
C8_FullQueueDrop ==
    /\ [](\A c \in Callers : StoreOnFullQueue(c) => ENABLED Store(c))
    /\ [][\A c \in Callers :
            (StoreOnFullQueue(c) /\ caller'[c] # caller[c]) =>
                /\ caller'[c].pc = "store_ret" /\ caller'[c].result = "Some"
                /\ dropped' = dropped + 1
                /\ queue' = queue
                /\ UNCHANGED <<workerPc, uploads_counter, done_chan, up, readers>>]_vars

C8_Witness ==
    \E c \in Callers :
        /\ caller[c].pc = "store_ret"
        /\ oneshot[CurMsg(c)] = "closed"
        /\ dropped = 1
        /\ Len(queue) = config.max_upload_queue_size

\* a message whose try_send failed: it was created by store, is not queued and was
\* never handed to an uploader
Dropped(m) == oneshot[m] # "none" /\ up[m].pc = "none" /\ \A i \in 1..Len(queue) : queue[i] # m

\* C9: a store dropped because the queue was full stays dropped: its file is never
\* stored, its sender is gone, so that its receiver never yields a value, and a caller
\* awaiting the receiver is not made to wait: the await can resolve, to Err.
C9_DroppedNeverStored ==
    /\ [](\A m \in Msgs :
            Dropped(m) =>
                /\ inode[m] = NoInode
                /\ \A k \in Keys : path[k] # m /\ gcs[k].owner # m
                /\ oneshot[m] \in {"closed", "recvErr"}
                /\ \A c \in Callers :
                      (caller[c].pc = "store_ret" /\ CurMsg(c) = m) => ENABLED AwaitCompletion(c))
    /\ [][\A m \in Msgs : Dropped(m) => Dropped(m)']_vars

C9_Witness ==
    \E m, w \in Msgs :
        /\ Dropped(m) /\ oneshot[m] = "recvErr"
        /\ msg[w].key = msg[m].key /\ msg[w].file # msg[m].file
        /\ up[w].res.t = "Written" /\ up[w].pc = "finished"

\* C10 as stated: of the first three stores of scenario S6 the first and the second
\* are accepted and the third is dropped, in every interleaving.
C10_ThirdDropped ==
    Len(storeLog) >= 3 => SubSeq(storeLog, 1, 3) = <<"accepted", "accepted", "dropped">>

\* C10 amended: of the first three stores of scenario S6 the first is accepted; the
\* second is accepted when the worker has taken the first from the queue, and then
\* the third is dropped; otherwise the second is dropped and the third is accepted or
\* dropped. The dropped counter counts the dropped stores.
C10_OverflowDrops ==
    /\ Len(storeLog) >= 1 => storeLog[1] = "accepted"
    /\ Len(storeLog) >= 3 =>
          SubSeq(storeLog, 1, 3) \in { <<"accepted", "accepted", "dropped">>,
                                       <<"accepted", "dropped", "accepted">>,
                                       <<"accepted", "dropped", "dropped">> }
    /\ dropped = Cardinality({i \in 1..Len(storeLog) : storeLog[i] = "dropped"})

C10_Witness ==
    /\ config.max_upload_queue_size = 1 /\ config.max_concurrent_uploads = 1
    /\ \E m \in Msgs : up[m].pc = "store"
    /\ Len(storeLog) >= 3
    /\ SubSeq(storeLog, 1, 3) = <<"accepted", "dropped", "accepted">>

\* the single_uploader tasks that were spawned and whose backend.store has not returned
InFlight == {m \in Msgs : up[m].pc \notin {"none", "ret", "signal", "finished"}}

\* the single_uploader tasks that hold a slot: spawned and not yet past done_tx.send
HoldingSlot == {m \in Msgs : up[m].pc \notin {"none", "signal", "finished"}}

\* C11: in every reachable state at most max_concurrent_uploads uploaders are inside
\* backend.store; the free slots, the uploaders holding a slot and the pending done
\* signals add up to max_concurrent_uploads once the worker is spawned.
C11_ConcurrencyBound ==
    /\ Cardinality(InFlight) <= config.max_concurrent_uploads
    /\ workerPc = "running" =>
          /\ uploads_counter >= 0
          /\ uploads_counter + Cardinality(HoldingSlot) + done_chan
                = config.max_concurrent_uploads

C11_Witness ==
    /\ Cardinality(InFlight) = config.max_concurrent_uploads
    /\ uploads_counter = 0
    /\ queue # <<>>

\* a message that try_send has put on the queue, now or earlier
Accepted(m) == oneshot[m] # "none" /\ ~Dropped(m)

\* a message for which the worker has spawned single_uploader
Spawned(m) == up[m].pc # "none"

\* C12: the worker spawns uploaders in the order of acceptance: a step that changes
\* the queue appends one message at its back or removes the one at its front, the
\* message a step spawns an uploader for is the one at the front, and of two stores
\* of one caller the later is never spawned while the earlier, if accepted, is not.
C12_FifoDispatch ==
    /\ [](\A m1, m2 \in Msgs :
            (m1[1] = m2[1] /\ m1[2] < m2[2] /\ Accepted(m1) /\ Spawned(m2)) => Spawned(m1))
    /\ [][/\ \A m \in Msgs :
               (~Spawned(m) /\ Spawned(m)') =>
                   queue # <<>> /\ m = Head(queue) /\ queue' = Tail(queue)
          /\ queue' # queue =>
               \/ queue # <<>> /\ queue' = Tail(queue)
               \/ \E m \in Msgs : ~Accepted(m) /\ queue' = Append(queue, m)]_vars

\* two accepted stores of one caller, spawned in their order, of which the later has
\* finished while the earlier is still inside backend.store
C12_Witness ==
    \E m1, m2 \in Msgs :
        /\ m1[1] = m2[1] /\ m1[2] < m2[2]
        /\ up[m1].pc \in {"fs_copy", "gcs_upload", "store"}
        /\ up[m2].pc = "finished"
        /\ config.max_upload_queue_size = 2

\* the messages on the queue
Queued == {queue[i] : i \in 1..Len(queue)}

\* C13: a message is handed to single_uploader, and so to backend.store, at most
\* once: an uploader is spawned only for a message that has none yet, a spawned
\* message is no longer on the queue, the queue holds no message twice, and a store
\* that returned None or was dropped has no uploader and is not queued.
C13_AtMostOnce ==
    /\ [](/\ Cardinality(Queued) = Len(queue)
          /\ \A m \in Msgs :
                /\ Spawned(m) => (m \notin Queued /\ oneshot[m] # "none")
                /\ oneshot[m] \in {"none", "closed", "recvErr"} =>
                      (~Spawned(m) /\ m \notin Queued)
          /\ \A c \in Callers :
                (Returned(c, "store") /\ caller[c].result = "None") =>
                    oneshot[CurMsg(c)] = "none")
    /\ [][\A m \in Msgs : (up'[m].pc = "store" /\ up'[m] # up[m]) => ~Spawned(m)]_vars

C13_Witness ==
    \E m1, m2 \in Msgs :
        /\ up[m1].pc = "finished" /\ IsOkStore(up[m1].res)
        /\ Dropped(m2) /\ oneshot[m2] = "closed"

\* C14: once the upload channel is closed and drained and no upload is in flight,
\* the worker leaves its select loop: it has terminated or its `else => break` arm
\* can run.
C14_WorkerTerminates ==
    (workerPc # "none" /\ Closed /\ queue = <<>> /\ HoldingSlot = {} /\ done_chan = 0)
        => (workerPc = "terminated" \/ SelectElse)

\* C15: an uploader that was running when the upload channel closed is not
\* cancelled: while it has not ended its next step can be taken, and once it has
\* ended its backend.store has returned and its completion signal was sent, unless
\* the caller had dropped the receiver.
C15_InFlightSurvivesClose ==
    \A m \in Msgs :
        up[m].closedInFlight =>
            /\ Closed
            /\ up[m].pc # "finished" => ENABLED UploaderStep(m)
            /\ up[m].pc = "finished" =>
                  /\ up[m].res # Pending
                  /\ oneshot[m] \in {"sent", "recvOk", "rxDropped"}

C15_Witness ==
    \E m \in Msgs :
        /\ up[m].closedInFlight
        /\ up[m].pc = "finished" /\ up[m].res.t = "Written"
        /\ oneshot[m] = "recvOk"

\* C16: a fetch of the facade returns true or false and nothing else: true exactly
\* when it found the inner state installed and the backend fetch returned
\* Ok(Some(bytes)); false when the inner state was not installed, when the backend
\* returned Ok(None) and when it returned a CacheError.
C16_FetchSwallowsErrors ==
    \A c \in Callers :
        Returned(c, "fetch") =>
            /\ caller[c].result \in {"true", "false"}
            /\ caller[c].result = "true" <=> (caller[c].sawInner /\ caller[c].res.t = "Some")
            /\ ~caller[c].sawInner => caller[c].res = Pending
            /\ caller[c].sawInner => caller[c].res # Pending

C16_Witness ==
    \E c, d \in Callers :
        /\ Returned(c, "fetch") /\ caller[c].res = ConnectTimeout /\ caller[c].result = "false"
        /\ Returned(d, "fetch") /\ caller[d].res = Other /\ caller[d].result = "false"

\* C17: whenever a fetch of the facade returns false, the writer holds what it held
\* before the call, which is nothing.
C17_FalseLeavesWriter ==
    \A c \in Callers :
        (Returned(c, "fetch") /\ caller[c].result = "false") => caller[c].sink = <<>>

\* C18: when the backend cannot be created, init ends without installing the inner
\* state and without a worker, and stays so: no message is ever queued, dropped or
\* uploaded, no call waits, every fetch returns false and every store returns None.
\* The inner state is installed only together with a running worker.
C18_InitFailureIsPermanent ==
    /\ [](initPc \in {"locking", "done"} => workerPc # "none")
    /\ [](inner => initPc = "done")
    /\ [](initPc = "failed" =>
            /\ ~inner /\ workerPc = "none" /\ queue = <<>> /\ dropped = 0 /\ readers = {}
            /\ \A m \in Msgs : up[m] = NoUploader /\ oneshot[m] = "none"
            /\ \A c \in Callers :
                /\ ~InBackendFetch(c) /\ ~HoldsReceiver(c)
                /\ caller[c].pc = "name_wait" => ENABLED BackendName(c)
                /\ caller[c].pc = "fetch_wait" => ENABLED FetchDispatch(c)
                /\ caller[c].pc = "store_wait" => ENABLED Store(c)
                /\ Returned(c, "fetch") => caller[c].result = "false" /\ caller[c].sink = <<>>
                /\ Returned(c, "store") => caller[c].result = "None")
    /\ [][initPc = "failed" => initPc' = "failed"]_vars

C18_Witness ==
    /\ config.backend = "Gcs"
    /\ initPc = "failed"
    /\ \E c, d \in Callers :
        /\ Returned(c, "fetch") /\ caller[c].result = "false"
        /\ Returned(d, "store") /\ caller[d].result = "None"

\* C19: the clones of the service feed one queue and one worker: whoever made the
\* stores, the queue never holds more than max_upload_queue_size messages and never
\* more than max_concurrent_uploads uploaders are inside backend.store; the worker
\* is spawned by init, once, and init runs once.
C19_ClonesShareWorker ==
    /\ [](/\ Len(queue) <= config.max_upload_queue_size
          /\ Cardinality(InFlight) <= config.max_concurrent_uploads
          /\ workerPc # "none" => initPc \in {"locking", "done"})
    /\ [][/\ workerPc' # workerPc =>
               \/ workerPc = "none" /\ workerPc' = "running" /\ initPc = "creating"
               \/ workerPc = "running" /\ workerPc' = "terminated"
          /\ initPc # "creating" => initPc' # "creating"]_vars

\* a store through one clone is dropped because the message of another clone fills
\* the queue
C19_Witness ==
    \E m1, m2 \in Msgs :
        /\ m1[1] # m2[1]
        /\ queue = <<m1>> /\ config.max_upload_queue_size = 1
        /\ Dropped(m2)

\* C20: download_source outcome mapping: when the call has returned, the four
\* request failures gave Ok(NotFound), a ServiceError of kind NoSuchKey gave
\* Ok(NotFound), any other ServiceError gave Err with the HTTP status and the
\* service error code, a response of content_length 0 gave Ok(NotFound), and only
\* a response of content_length > 0 was streamed to the destination.
C20_OutcomeMapping ==
    LET r == s3.response IN
    /\ s3.pc = "done" =>
        /\ r.t \in SdkErrors => s3.result = NotFound
        /\ r.t = "ServiceError" /\ r.kind = "NoSuchKey" => s3.result = NotFound
        /\ r.t = "ServiceError" /\ r.kind # "NoSuchKey" => s3.result = S3WithCode(r.status)
        /\ r.t = "Ok" /\ r.content_length = 0 => s3.result = NotFound
    /\ (s3.pc = "streaming" \/ s3.streamed) => r.t = "Ok" /\ r.content_length > 0

\* download_source returned Err
ReturnedErr == s3.pc = "done" /\ s3.result.t \in {"Canceled", "S3WithCode", "S3", "Io"}

\* C21: when download_source has returned Ok(NotFound) or Err for a missing object,
\* refused credentials or an elapsed connect timeout (any outcome other than a
\* body to stream), the destination has not been created or written; and a call
\* whose request met an authentication failure has returned Err, not NotFound. An
\* authentication failure is a response with which the service refused the
\* credentials: status 403 with an error kind the SDK does not model (AccessDenied,
\* InvalidAccessKeyId, SignatureDoesNotMatch).
C21_FailureLeavesDestination ==
    LET r == s3.response IN
    /\ ((s3.pc = "done" /\ s3.result = NotFound) \/ ReturnedErr)
            /\ ~(r.t = "Ok" /\ r.content_length > 0)
        => s3.destination = NoDestination
    /\ (s3.pc = "done" /\ r.t = "ServiceError" /\ r.status = 403 /\ r.kind = "Unhandled")
        => ReturnedErr

\* a caller that holds the client get_s3_client returned to it
HasClient(c) == Getter(c).pc = "have"

\* C22: single-flight client cache: a key's client is built at most once more than
\* its entry was evicted (so once while the entry stays cached), at most one
\* caller at a time is building the client of a key, every caller receives a
\* client built for the key it asked for, and while the entry of a key has never
\* been evicted all callers of that key hold the same client.
C22_SingleFlight ==
    /\ \A k \in S3Keys :
        /\ s3get.create[k] <= s3get.evicted[k] + 1
        /\ Cardinality({c \in S3Callers : Getter(c).pc = "creating" /\ Getter(c).key = k}) <= 1
    /\ \A c \in S3Callers : HasClient(c) =>
        /\ Getter(c).client[1] = Getter(c).key
        /\ Getter(c).client[2] \in 1..s3get.create[Getter(c).key]
    /\ \A c, d \in S3Callers :
        HasClient(c) /\ HasClient(d) /\ Getter(c).key = Getter(d).key
            /\ s3get.evicted[Getter(c).key] = 0
        => Getter(c).client = Getter(d).client

\* three callers asked for the same key before its client was cached, it was built
\* once, and all three hold it
C22_Witness ==
    \E k \in S3Keys :
        /\ s3get.create[k] = 1
        /\ \A c \in S3Callers : HasClient(c) /\ Getter(c).key = k /\ Getter(c).n = 1
        /\ s3get.cached = 0

\* C23: however backend.store ended, the uploader's next step sends the done signal
\* (one more pending signal, which the worker can take to release the slot) and
\* the step after it sends on the caller's one-shot, ignored when the receiver was
\* dropped; neither step can be blocked, neither signal is sent by any other step,
\* and an uploader that has ended takes no further step.
C23_SignalsBoth ==
    /\ [](/\ \A m \in Msgs :
               /\ up[m].pc = "ret" => up[m].res # Pending /\ ENABLED UploaderDone(m)
               /\ up[m].pc = "signal" => ENABLED UploaderComplete(m)
               /\ up[m].pc = "finished" => oneshot[m] \in {"sent", "recvOk", "rxDropped"}
          /\ (workerPc = "running" /\ done_chan > 0) => ENABLED UploadWorkerDone)
    /\ [][/\ \A m \in Msgs :
               /\ (up[m].pc = "ret" /\ up'[m].pc # "ret") =>
                     up'[m].pc = "signal" /\ done_chan' = done_chan + 1
               /\ (up[m].pc = "signal" /\ up'[m].pc # "signal") =>
                     /\ up'[m].pc = "finished"
                     /\ oneshot'[m] = IF oneshot[m] = "open" THEN "sent" ELSE oneshot[m]
               /\ up[m].pc = "finished" => up'[m] = up[m]
               /\ (oneshot[m] # "sent" /\ oneshot'[m] = "sent") =>
                     up[m].pc = "signal" /\ up'[m].pc = "finished"
          /\ done_chan' > done_chan =>
               \E m \in Msgs : up[m].pc = "ret" /\ up'[m].pc = "signal"
          /\ done_chan' < done_chan =>
               done_chan' = done_chan - 1 /\ uploads_counter' = uploads_counter + 1]_vars

\* a store failed, its caller had dropped the receiver, and the uploader has ended
\* with its slot released; another store was written and its caller was told
C23_Witness ==
    \E m1, m2 \in Msgs :
        /\ up[m1].pc = "finished" /\ IsErr(up[m1].res) /\ oneshot[m1] = "rxDropped"
        /\ up[m2].pc = "finished" /\ IsOkStore(up[m2].res) /\ oneshot[m2] = "recvOk"
        /\ done_chan = 0 /\ uploads_counter = config.max_concurrent_uploads

\* a direct call of GcsState::store, and one that has returned
DirectStore(r) == direct.op = "store" /\ direct.reason = r
DirectReturned(op) == direct.op = op /\ direct.pc = "done"

\* C24: a GCS store with reason Refresh calls exists before it uploads, and when
\* exists returned true the store returns Skipped with no upload request sent; a
\* store with reason New never calls exists and sends no exists request.
C24_RefreshChecksFirst ==
    /\ DirectStore("Refresh") =>
        /\ direct.pc \in {"upload", "done"} => direct.get # NoRequest
        /\ direct.wire \in {<<>>, <<"exists">>, <<"upload">>, <<"exists", "upload">>}
        /\ (direct.get # NoRequest /\ GcsExistsResult(direct.get).t = "true") =>
              /\ direct.pc = "done" /\ direct.res = Skipped
              /\ direct.post = NoRequest
              /\ direct.wire = <<"exists">>
    /\ DirectStore("New") =>
        /\ direct.get = NoRequest
        /\ \A i \in 1..Len(direct.wire) : direct.wire[i] # "exists"
        /\ direct.pc = "done" => direct.post # NoRequest

\* a Refresh store of a key stored before: exists was asked, answered 200, and the
\* store returned Skipped having sent nothing else
C24_Witness ==
    /\ DirectStore("Refresh") /\ direct.pc = "done"
    /\ direct.get = Answer(200)
    /\ direct.res = Skipped /\ direct.wire = <<"exists">>
    /\ direct.key \in direct.stored

\* the exists pre-check of the direct store has failed
PreCheckFailed == direct.get # NoRequest /\ IsErr(GcsExistsResult(direct.get))

\* C25: when the exists pre-check of a Refresh store fails, the store does not
\* return that error: it goes on to the upload and returns what the upload gives,
\* as a store with reason New does; the error was captured exactly once, unless it
\* was ConnectTimeout, which is not captured; nothing else is captured.
C25_PreCheckErrorSwallowed ==
    /\ (DirectStore("Refresh") /\ PreCheckFailed) =>
        /\ direct.pc \in {"upload", "done"}
        /\ direct.pc = "upload" => direct.res = Pending /\ direct.post = NoRequest
        /\ direct.pc = "done" =>
              /\ direct.post # NoRequest
              /\ direct.res = GcsStoreResult(direct.post, Len(direct.file.data))
        /\ direct.captured = IF GcsExistsResult(direct.get) = ConnectTimeout THEN 0 ELSE 1
    /\ (direct.op = "store" /\ ~PreCheckFailed) => direct.captured = 0
    /\ (DirectStore("New") /\ direct.pc = "done") =>
          direct.res = GcsStoreResult(direct.post, Len(direct.file.data))

\* the pre-check met a transport error, the whole file was uploaded all the same,
\* and the error was captured once
C25_Witness ==
    /\ DirectStore("Refresh") /\ direct.pc = "done"
    /\ direct.get = Failure("transport")
    /\ direct.post = Answer(200)
    /\ direct.file.pos = 2 /\ direct.res = Written(2)
    /\ direct.captured = 1
    /\ direct.wire = <<"exists", "upload">>

\* C26: the result of a GCS store that reached the upload: a 2xx answer gives
\* Written(n) with n the length of the whole source file, 412 gives Skipped, every
\* other status (401, 403, 404, 500) gives Other, an elapsed timeout gives
\* ConnectTimeout and a transport error gives Other.
C26_StoreMapping ==
    (DirectReturned("store") /\ direct.post # NoRequest) =>
        LET resp == direct.post IN
        /\ (resp.kind = "status" /\ resp.status \in 200..299) =>
              direct.res = Written(Len(direct.file.data))
        /\ (resp.kind = "status" /\ resp.status = 412) => direct.res = Skipped
        /\ (resp.kind = "status" /\ resp.status \notin (200..299) \cup {412}) =>
              direct.res = Other
        /\ resp.kind = "timeout" => direct.res = ConnectTimeout
        /\ resp.kind = "transport" => direct.res = Other

\* a second store of a key met 412 and returned Skipped, the object of the first
\* store still in the bucket
C26_Witness ==
    /\ DirectReturned("store") /\ direct.n = 2
    /\ direct.post = Answer(412) /\ direct.res = Skipped
    /\ gcs[direct.key].present /\ gcs[direct.key].owner = <<0, 1>>

\* the outcomes of a direct GcsState::fetch that do not depend on the copy
FetchErrorMapping ==
    LET resp == direct.get IN
    /\ (resp.kind = "status" /\ resp.status = 404) =>
          direct.res = NoneFound /\ direct.sink = <<>>
    /\ (resp.kind = "status" /\ resp.status \notin (200..299) \cup {404}) =>
          direct.res = Other /\ direct.sink = <<>>
    /\ resp.kind = "timeout" => direct.res = ConnectTimeout /\ direct.sink = <<>>
    /\ resp.kind = "transport" => direct.res = Other /\ direct.sink = <<>>
    /\ resp.kind = "token" => direct.res = Other /\ direct.wire = <<>> /\ direct.sink = <<>>
    /\ resp.kind # "token" => direct.wire = <<"get">>

\* C27 as stated: on a 2xx answer the body is copied to the writer and the fetch
\* returns Some(bytes copied); 404 gives None; the other statuses give Other; a
\* timeout gives ConnectTimeout; a token failure gives Other with no GET sent.
C27_FetchMapping ==
    DirectReturned("fetch") =>
        /\ FetchErrorMapping
        /\ (direct.get.kind = "status" /\ direct.get.status \in 200..299) =>
              direct.res = SomeBytes(Len(direct.body)) /\ direct.sink = direct.body

\* C27, amended: on a 2xx answer the fetch returns Some(bytes copied) with the whole
\* body in the writer, or Other when the copy failed, with a prefix of the body in
\* the writer; the other outcomes are as stated.
C27_FetchMappingOrCopyError ==
    DirectReturned("fetch") =>
        /\ FetchErrorMapping
        /\ (direct.get.kind = "status" /\ direct.get.status \in 200..299) =>
              \/ direct.res = SomeBytes(Len(direct.body)) /\ direct.sink = direct.body
              \/ /\ direct.res = Other
                 /\ Len(direct.sink) <= Len(direct.body)
                 /\ direct.sink = SubSeq(direct.body, 1, Len(direct.sink))

\* a 200 answer whose body stream broke after the first byte
C27_Witness ==
    /\ DirectReturned("fetch")
    /\ direct.get = Answer(200)
    /\ direct.res = Other
    /\ Len(direct.body) = 2 /\ Len(direct.sink) = 1

\* the result of a direct GcsState::exists by the status of the answer
ExistsStatusMapping ==
    LET resp == direct.get IN
    resp.kind = "status" =>
        /\ resp.status = 200 => direct.res.t = "true"
        /\ resp.status = 404 => direct.res.t = "false"
        /\ resp.status \notin {200, 404} => direct.res = Other

\* C28 as stated: exists gives true for 200, false for 404 and Other for every other
\* status; for a key with no object it returns false, and for a key a store
\* returned Written or Skipped for it returns true.
C28_ExistsMapping ==
    DirectReturned("exists") =>
        /\ ExistsStatusMapping
        /\ ~gcs[direct.key].present => direct.res.t = "false"
        /\ direct.key \in direct.stored => direct.res.t = "true"

\* C28, amended: the status mapping as stated; for a key with no object exists
\* returns false or an error, never true; for a key a store returned Written or
\* Skipped for it returns true or an error, never false.
C28_ExistsMappingOrError ==
    DirectReturned("exists") =>
        /\ ExistsStatusMapping
        /\ ~gcs[direct.key].present => (direct.res.t = "false" \/ IsErr(direct.res))
        /\ direct.key \in direct.stored => (direct.res.t = "true" \/ IsErr(direct.res))

\* exists of a key stored before timed out
C28_Witness ==
    /\ DirectReturned("exists")
    /\ direct.key \in direct.stored
    /\ direct.get = Failure("timeout") /\ direct.res = ConnectTimeout

\* C29: a call of GcsState::exists that has returned, made directly or as the
\* pre-check of a Refresh store, has incremented services.shared_cache.exists exactly
\* once, with status ok for Ok(true) and Ok(false), connect-timeout for
\* ConnectTimeout and error for every other error.
C29_ExistsCounted ==
    (direct.op \in {"exists", "store"} /\ direct.get # NoRequest) =>
        LET found == GcsExistsResult(direct.get) IN
        direct.exists_metric =
            IF found = ConnectTimeout THEN <<"connect-timeout">>
            ELSE IF found = Other THEN <<"error">>
            ELSE <<"ok">>

\* a caller inside FilesystemSharedCacheConfig::fetch, or with its result in hand
InFsFetch(c) ==
    config.backend = "Filesystem" /\ caller[c].pc \in {"fs_fetch", "fs_copy", "fetch_res"}

\* C30: filesystem fetch: when File::open fails with NotFound, Ok(None) is returned
\* with nothing written; Some(n) is returned with the whole content of the opened
\* file in the writer and n its length; every other failure is Other, never
\* ConnectTimeout; the open of a path that names no file fails, the open of a path
\* that names a file never fails with NotFound.
C30_FsFetch ==
    /\ [](\A c \in Callers : (InFsFetch(c) /\ caller[c].pc = "fetch_res") =>
            /\ caller[c].res.t \in {"None", "Some", "Other"}
            /\ caller[c].ioerr = "NotFound" <=> caller[c].res = NoneFound
            /\ caller[c].res = NoneFound =>
                  caller[c].sink = <<>> /\ caller[c].handle = NoMsg
            /\ caller[c].res.t = "Some" =>
                  /\ caller[c].handle # NoMsg
                  /\ caller[c].sink = inode[caller[c].handle].content
                  /\ caller[c].res.n = Len(caller[c].sink))
    /\ [][\A c \in Callers :
            (InFsFetch(c) /\ caller[c].pc = "fs_fetch" /\ caller'[c].pc # "fs_fetch") =>
                LET k == caller[c].key IN
                /\ path[k] = NoMsg =>
                      caller'[c].pc = "fetch_res" /\ caller'[c].ioerr # "none"
                /\ path[k] # NoMsg => caller'[c].ioerr # "NotFound"
                /\ caller'[c].pc = "fs_copy" => caller'[c].handle = path[k]]_vars

\* a fetch copied the two bytes of the file a store had written
C30_Witness ==
    \E c \in Callers :
        /\ InFsFetch(c) /\ caller[c].pc = "fetch_res"
        /\ caller[c].res = SomeBytes(2) /\ caller[c].sink = <<1, 2>>

\* C31: for both backends, a store that returned Written(n) has stored the whole
\* source file whatever position the handle had when it was handed over: the
\* content stored by that store equals the complete file and n is its full length.
C31_WholeFileStored ==
    \A m \in Msgs :
        up[m].res.t = "Written" =>
            /\ up[m].res.n = Len(msg[m].file.data)
            /\ config.backend = "Filesystem" => inode[m].content = msg[m].file.data
            /\ config.backend = "Gcs" =>
                  /\ gcs[msg[m].key].owner = m
                  /\ gcs[msg[m].key].content = msg[m].file.data

\* a file handed over with its cursor at the end was written in full and published
C31_Witness ==
    \E m \in Msgs :
        /\ msg[m].file.pos = Len(msg[m].file.data) /\ msg[m].file.pos > 0
        /\ up[m].res = Written(Len(msg[m].file.data))
        /\ config.backend = "Filesystem"
        /\ path[msg[m].key] = m /\ inode[m].content = msg[m].file.data

\* C32: in fetch and in single_uploader, a backend error ConnectTimeout is counted
\* once with status=error and errdetails=connect-timeout and is never logged as an
\* error; a backend error Other is counted once with errdetails=other and logged as
\* an error exactly once; nothing is counted or logged before the backend returned.
C32_TimeoutCountedNotLogged ==
    LET ErrorReport(details, logged) ==
            [metric |-> <<[status |-> "error", errdetails |-> details]>>,
             logged |-> logged]
        Reported(r) == [metric |-> r.metric, logged |-> r.logged]
    IN
    /\ \A c \in Callers :
        /\ caller[c].pc # "idle" => Reported(caller[c]) = [metric |-> <<>>, logged |-> 0]
        /\ (Returned(c, "fetch") /\ caller[c].res = ConnectTimeout)
              => Reported(caller[c]) = ErrorReport("connect-timeout", 0)
        /\ (Returned(c, "fetch") /\ caller[c].res = Other)
              => Reported(caller[c]) = ErrorReport("other", 1)
    /\ \A m \in Msgs :
        /\ up[m].pc \notin {"signal", "finished"}
              => Reported(up[m]) = [metric |-> <<>>, logged |-> 0]
        /\ (up[m].pc \in {"signal", "finished"} /\ up[m].res = ConnectTimeout)
              => Reported(up[m]) = ErrorReport("connect-timeout", 0)
        /\ (up[m].pc \in {"signal", "finished"} /\ up[m].res = Other)
              => Reported(up[m]) = ErrorReport("other", 1)

\* a fetch has returned after a connect timeout and an upload has ended with an
\* Other error
C32_Witness ==
    \E c \in Callers, m \in Msgs :
        /\ Returned(c, "fetch") /\ caller[c].res = ConnectTimeout
        /\ caller[c].logged = 0 /\ Len(caller[c].metric) = 1
        /\ up[m].pc = "finished" /\ up[m].res = Other /\ up[m].logged = 1

\* C33: try_new without a service account file retries until an attempt succeeds
\* or fails after more than MAX_DELAY: it ends by returning the manager or the
\* last error, never otherwise, it returns the error only when the failed attempt
\* found more than MAX_DELAY elapsed and sleeps only when it did not; with a
\* service account file it makes a single attempt and never sleeps.
C33_RetryUntilDeadline ==
    /\ auth.pc = "done" => auth.result \in {"manager", "err"}
    /\ (auth.mode = "ambient" /\ auth.pc = "done" /\ auth.result = "err")
          => auth.guard > MAX_DELAY
    /\ (auth.mode = "ambient" /\ auth.pc = "sleep") => auth.guard <= MAX_DELAY
    /\ auth.mode = "file" => auth.attempts <= 1 /\ auth.pc # "sleep"
    /\ (auth.mode = "file" /\ auth.pc = "done") => auth.attempts = 1

\* C34: every message accepted into the upload queue is eventually handed to
\* single_uploader, and so to backend.store, provided every running backend.store
\* call returns: a queued message waits while the slots are taken and is taken
\* once a slot is released.
C34_AcceptedEventuallyDispatched ==
    \A m \in Msgs : (m \in Queued) ~> Spawned(m)

\* a message waits on the queue while the only slot is taken by a running upload
C34_Witness ==
    /\ queue # <<>>
    /\ uploads_counter = 0 /\ config.max_concurrent_uploads = 1
    /\ InFlight # {}

\* C35: closing the upload channel discards no queued message: a message leaves
\* the queue only by being handed to single_uploader, also after every sender
\* was dropped, and while messages are queued on the closed channel the worker
\* runs and takes the next one as soon as a slot is free.
C35_ClosedQueueDrained ==
    /\ [][\A m \in Queued : m \in Queued' \/ (~Spawned(m) /\ Spawned(m)')]_vars
    /\ []((Closed /\ queue # <<>>) =>
            /\ workerPc = "running"
            /\ SlotFree(uploads_counter) => ENABLED UploadWorkerRecv
            /\ ~SlotFree(uploads_counter) => (HoldingSlot # {} \/ done_chan > 0))

\* an uploader spawned after the channel was closed
C35_Witness ==
    /\ Closed
    /\ \E m \in Msgs : up[m].pc \notin {"none", "finished"} /\ ~up[m].closedInFlight

\* C36: the inner state is written at most once: it goes from None to Some in a
\* step of init that follows the creation of the backend and the spawn of the
\* upload worker, it is never reset or written again, and a store that found it
\* installed has a worker consuming the queue.
C36_InstalledOnce ==
    /\ [](inner => initPc = "done" /\ workerPc = "running")
    /\ [](\A c \in Callers :
            (caller[c].op = "store" /\ caller[c].sawInner) => workerPc = "running")
    /\ [][/\ inner => inner'
          /\ initPc = "done" => initPc' = "done" /\ inner' = inner
          /\ inner' # inner => initPc = "locking" /\ initPc' = "done" /\ workerPc = "running"]_vars

\* a store has found the state installed and queued its message
C36_Witness ==
    /\ inner
    /\ \E c \in Callers : caller[c].pc = "store_ret" /\ caller[c].sawInner
    /\ queue # <<>> /\ workerPc = "running"

\* C37: init is not starved by callers: once the backend is created and init waits
\* for the write lease, it eventually installs the inner state, also when calls
\* that take read leases keep arriving.
C37_InitNotStarved == (initPc = "locking") ~> inner

\* init waits for the write lease while a call holds a read lease and another
\* call is about to ask for one
C37_Witness ==
    /\ initPc = "locking" /\ ~inner
    /\ \E c, d \in Callers : c \in readers /\ caller[d].pc = "idle"

\* C38: download_source returns a value for every ServiceError response, also when
\* the error metadata lacks a code, message, request id or extended request id:
\* it never panics, NoSuchKey gives Ok(NotFound), and any other ServiceError
\* without an error code gives Err(DownloadError::S3).
C38_ServiceErrorReturns ==
    LET r == s3.response IN
    (s3.pc = "done" /\ r.t = "ServiceError") =>
        /\ s3.result # Panicked
        /\ r.kind = "NoSuchKey" => s3.result = NotFound
        /\ (r.kind # "NoSuchKey" /\ ~r.code) => s3.result = S3Err

\* C39: the slot counter of the upload worker stays within 0..max_concurrent_uploads,
\* and together with the spawned uploaders whose done signal the worker has not
\* consumed (those that have not sent it yet and the signals pending on the
\* channel) it adds up to max_concurrent_uploads; it is decremented only from a
\* positive value and incremented only below the maximum, one at a time.
C39_SlotCounter ==
    /\ [](workerPc = "running" =>
            /\ uploads_counter \in 0..config.max_concurrent_uploads
            /\ uploads_counter + (Cardinality(HoldingSlot) + done_chan)
                  = config.max_concurrent_uploads)
    /\ [][workerPc = "running" =>
            /\ uploads_counter' < uploads_counter =>
                  uploads_counter > 0 /\ uploads_counter' = uploads_counter - 1
            /\ uploads_counter' > uploads_counter =>
                  /\ uploads_counter < config.max_concurrent_uploads
                  /\ uploads_counter' = uploads_counter + 1]_vars

\* both slots are taken: one uploader is running, the other has sent its signal
C39_Witness ==
    /\ config.max_concurrent_uploads = 2
    /\ uploads_counter = 0 /\ done_chan = 1 /\ Cardinality(HoldingSlot) = 1

\* C40: the done channel never holds more than max_concurrent_uploads signals, so
\* the send of an uploader whose backend.store has returned does not wait for room,
\* and it does not fail: the worker, which holds the receiver, is running as long
\* as an uploader has its signal to send.
C40_DoneSendNeverBlocks ==
    /\ done_chan \in 0..config.max_concurrent_uploads
    /\ \A m \in Msgs :
        up[m].pc \notin {"none", "signal", "finished"} =>
            /\ workerPc = "running"
            /\ done_chan < config.max_concurrent_uploads
            /\ up[m].pc = "ret" => ENABLED UploaderDone(m)

\* the channel is full: every slot's signal is pending
C40_Witness ==
    /\ config.max_concurrent_uploads = 2
    /\ done_chan = 2
    /\ \E m \in Msgs : up[m].pc = "signal"

====
